---- MODULE Spec2Model ----
(***************************************************************************)
(* A model of the ReactBitsGridDistortion component                        *)
(* (src/components/ReactBitsGridDistortion.tsx): the WebGL context         *)
(* lifecycle and recovery state machine, the animation loop, and the       *)
(* adaptive quality controller.                                            *)
(*                                                                         *)
(* React semantics kept by the model:                                      *)
(*  - a handler's state updates are committed when the handler ends; the   *)
(*    render that follows decides which element tree is mounted, so the    *)
(*    canvas ref is non-null exactly when the last committed state         *)
(*    renders the canvas branch (CanvasMounted);                           *)
(*  - effects run in a later step (RunEffects), in declaration order,      *)
(*    each only when its dependency list changed; dependencies are         *)
(*    compared by value;                                                   *)
(*  - a callback that awaits or is re-armed with setTimeout keeps the      *)
(*    values of the render that created it (the closure stored in the      *)
(*    timer), while functional updates read the current state;             *)
(*  - the context listeners are those of the last render whose effects     *)
(*    ran: they stay on the canvas element, with that render's values,     *)
(*    until the listener effect runs again.                                *)
(*                                                                         *)
(* Environment: frames, pointer and resize events and the context-loss     *)
(* event are taken when the effects of the last render have run; the       *)
(* clock, the timers and the context-restored event are not held back.     *)
(* The browser reports a restore only for a context it reported lost.      *)
(*                                                                         *)
(* Time is in milliseconds.  Frame rates are in thousandths of a frame per *)
(* second, an average is kept as an exact fraction [num, den].  Positions  *)
(* are in thousandths of the canvas size.                                  *)
(***************************************************************************)
EXTENDS Integers, Sequences, FiniteSets, TLC

VARIABLES
    now,                   \* performance.now()
    containerRect,         \* container.getBoundingClientRect(): <<width, height>>
    webglState,            \* useState<WebGLContextState>
    deviceCapabilities,    \* useState<DeviceCapabilities | null>: known or not
    contextRecoveryState,  \* useState<ContextRecoveryState>
    fallbackState,         \* useState<FallbackState>
    mouseState,            \* useState<MouseState>
    dimensions,            \* useState({ width, height })
    performanceState,      \* useState<PerformanceState>
    frameScheduled,        \* animationFrameRef holds a live requestAnimationFrame
    timers,                \* pending continuations of attemptContextRecovery
    effectDeps,            \* dependency lists seen by the last effect run
    listeners,             \* closure of the context listeners attached to the canvas, or Null
    windowListener,        \* closure of the window resize listener, or Null
    contextLost,           \* the browser holds the WebGL context as lost
    gpuFailed,             \* history: some GPU step of initializeWebGL has failed
    reinitCalls,           \* history: initializeWebGL calls made by recovery attempts
    reinitFailures,        \* history: how many of those calls returned false
    drawCalls,             \* history: gl.drawArrays calls issued
    lossSnapshots,         \* history: mouse, dimensions and performance at each loss
    tierChanges,           \* history: the mount, then every quality-tier change
    samples,               \* history: every frame-rate sample pushed, in arrival order
    mouseEasing,           \* the mouseEasing property, in thousandths
    lastInit,              \* history: the last initializeWebGL call followed on its own, or Null
    unmounted,             \* the component has been unmounted
    imageSrc,              \* the imageSrc property ("" for none)
    textureState,          \* useState<TextureState>
    textureDeps,           \* dependency list seen by the last run of the texture load effect
    loads,                 \* loadTexture calls in flight: awaiting the image or a retry timer
    textures,              \* GPU textures created and not deleted
    chainsStarted,         \* history: loadTexture calls made by the texture load effect
    texturesCreated,       \* history: GPU textures created so far
    deletesWhileLost,      \* history: GPU deletion calls issued while the context was lost
    gpuDeleted,            \* history: the program and vertex buffer deleted on a valid context
    createsWhileLost,      \* history: gl.createTexture() calls issued while the context was lost
    inputEvents,           \* history: pointer, touch and key events handled
    mouseSmoothing,        \* the mouseSmoothing property, in hundredths
    lastInput,             \* history: the last input event handled, or Null
    uniforms,              \* the uniforms of the fragment shader for the frame being drawn
    fragment,              \* the last fragment shaded with them, or Null
    resizeLog,             \* history: the window resize events handled, in order
    device,                \* devicePixelRatio (hundredths) and the detected device capabilities
    canvasSize,            \* canvas.width and canvas.height, the backing resolution
    props,                 \* the numeric properties the parent passes, Null where it passes none
    autoAnimation,         \* the autoAnimation property
    prefersReducedMotion   \* whether (prefers-reduced-motion: reduce) matches

vars == <<now, containerRect, webglState, deviceCapabilities, contextRecoveryState,
          fallbackState, mouseState, dimensions, performanceState, frameScheduled,
          timers, effectDeps, listeners, windowListener, contextLost, gpuFailed, reinitCalls, reinitFailures, drawCalls,
          lossSnapshots, tierChanges, samples, mouseEasing,
          lastInit, unmounted, imageSrc, textureState, textureDeps, loads, textures,
          chainsStarted, texturesCreated, deletesWhileLost, gpuDeleted,
          createsWhileLost, inputEvents,
          mouseSmoothing, lastInput, uniforms, fragment, resizeLog, device,
          canvasSize, props, autoAnimation, prefersReducedMotion>>

(* The variables the context-lifecycle steps leave alone. *)
textureVars ==
    <<imageSrc, textureState, textureDeps, loads, textures, chainsStarted,
      texturesCreated, deletesWhileLost, gpuDeleted, createsWhileLost>>

(* The variables of the stand-alone scenarios further down. *)
(* The variables of the renderer's surroundings and output. *)
renderVars == <<device, canvasSize, props, autoAnimation, prefersReducedMotion>>

scenarioVars ==
    <<inputEvents, mouseSmoothing, lastInput, uniforms, fragment, resizeLog,
      renderVars>>

auxVars == <<samples, mouseEasing, lastInit, unmounted, textureVars, scenarioVars>>

-----------------------------------------------------------------------------
(* Bounds of the model *)

MaxTime == 6000
MaxIdleTime == 600
MaxFrames == 3
MaxReinitCalls == 4
MaxTimers == 2
MaxLosses == 2
UMaxConfigured == 2
QMaxFrames == 5
QMaxTime == 9100
HMaxFrames == 62
PMaxInputs == 3
RMaxResizes == 3
EMaxFrames == 3
TMaxChains == 2

(* Steps by which the clock may advance when no timer is due earlier. *)
TimeSteps == {600}

(* Delays between two frames in the quality-controller specification. *)
FrameDeltas == {10, 25, 50, 3000}

(* Fractions (in tenths) of the exponential delay that Math.random() * 0.3 adds. *)
JitterTenths == {0, 2}

(* Container sizes and pointer positions the environment offers. *)
ContainerSizes == {[width |-> 300, height |-> 200], [width |-> 640, height |-> 480]}
MousePoints == {<<250, 750>>}

(* What the GPU answers to one initializeWebGL call. *)
GpuOutcomes == {"ok", "no_support", "no_context", "throws"}

(* The same, with the setup steps behind "throws" told apart. *)
InitOutcomes ==
    GpuOutcomes \cup {"primary_shader_fails", "primary_validation_fails",
                      "both_shaders_fail", "buffer_fails"}

Qualities == {"low", "medium", "high"}

(* A nullable value is the empty tuple or a one-element tuple. *)
Null == <<>>
Some(x) == <<x>>
ValueOf(o) == o[1]

Min(a, b) == IF a < b THEN a ELSE b
Max(a, b) == IF a > b THEN a ELSE b
Abs(a) == IF a < 0 THEN -a ELSE a

RECURSIVE SumSeq(_)
SumSeq(s) == IF s = <<>> THEN 0 ELSE Head(s) + SumSeq(Tail(s))

-----------------------------------------------------------------------------
(* Program constants *)

maxRecoveryAttempts == 3
recoveryDelay == 1000
minTimeBetweenAttempts == 500
maxContextLossCount == 10
maxRecoveryDelay == 10000
retryInterval == 100
monitorInterval == 1000
minChangeInterval == 3000
maxHistorySize == 60
maxRetries == 3
imageTimeout == 10000

-----------------------------------------------------------------------------
(* Performance monitoring and adaptive quality *)

qualityPresets ==
    [low    |-> [targetFrameRate |-> 30, maxDPR |-> 100],
     medium |-> [targetFrameRate |-> 45, maxDPR |-> 150],
     high   |-> [targetFrameRate |-> 60, maxDPR |-> 200]]

(* 1000 / deltaTime frames per second, 60 when deltaTime is 0, clamped to [1, 240]. *)
calculateFrameRate(currentTime, lastFrameTime) ==
    LET deltaTime == currentTime - lastFrameTime
        frameRate == IF deltaTime > 0 THEN (1000 * 1000) \div deltaTime ELSE 60 * 1000
    IN  Min(Max(frameRate, 1 * 1000), 240 * 1000)

(* updateFrameRateHistory without the eviction of the oldest sample. *)
updateFrameRateHistoryNoEviction(history, newFrameRate, maxSize) ==
    Append(history, newFrameRate)

updateFrameRateHistory(history, newFrameRate, maxSize) ==
    IF Len(history) >= maxSize
    THEN [i \in 1..Len(history) |->
             IF i < maxSize THEN history[i + 1]
             ELSE IF i = maxSize THEN newFrameRate
             ELSE history[i]]
    ELSE Append(history, newFrameRate)

calculateAverageFrameRate(history) ==
    IF Len(history) = 0 THEN [num |-> 60 * 1000, den |-> 1]
    ELSE [num |-> SumSeq(history), den |-> Len(history)]

(* avg < fps * pct / 100 and avg > fps * pct / 100, on the exact fraction. *)
AvgBelow(avg, fps, pct) == avg.num * 100 < fps * pct * 1000 * avg.den
AvgAbove(avg, fps, pct) == avg.num * 100 > fps * pct * 1000 * avg.den

(* shouldAdjustQuality without the minimum interval between changes. *)
shouldAdjustQualityNoCooldown(averageFrameRate, targetFrameRate, lastQualityChange, currentTime) ==
    \/ AvgBelow(averageFrameRate, targetFrameRate, 80)
    \/ AvgAbove(averageFrameRate, targetFrameRate, 110)

shouldAdjustQuality(averageFrameRate, targetFrameRate, lastQualityChange, currentTime) ==
    LET timeSinceLastChange == currentTime - lastQualityChange
    IN  IF timeSinceLastChange < minChangeInterval THEN FALSE
        ELSE \/ AvgBelow(averageFrameRate, targetFrameRate, 80)
             \/ AvgAbove(averageFrameRate, targetFrameRate, 110)

getOptimalQuality(currentQuality, averageFrameRate) ==
    IF AvgBelow(averageFrameRate, 25, 100) THEN "low"
    ELSE IF AvgBelow(averageFrameRate, 40, 100)
         THEN (IF currentQuality = "high" THEN "medium" ELSE currentQuality)
    ELSE IF AvgAbove(averageFrameRate, 55, 100)
         THEN (IF currentQuality = "low" THEN "medium" ELSE "high")
    ELSE currentQuality

(* The updater animate passes to setPerformanceState. *)
AnimatePerformance(prev, currentTime) ==
    LET frameRate == calculateFrameRate(currentTime, prev.lastFrameTime)
        newFrameRateHistory ==
            updateFrameRateHistory(prev.frameRateHistory, frameRate, maxHistorySize)
        averageFrameRate == calculateAverageFrameRate(newFrameRateHistory)
        targetFrameRate == qualityPresets[prev.adaptiveQuality].targetFrameRate
        adjust == shouldAdjustQuality(averageFrameRate, targetFrameRate,
                                      prev.lastQualityChange, currentTime)
        optimalQuality == getOptimalQuality(prev.adaptiveQuality, averageFrameRate)
        changed == adjust /\ optimalQuality # prev.adaptiveQuality
    IN  [frameCount        |-> prev.frameCount + 1,
         lastFrameTime     |-> currentTime,
         frameRateHistory  |-> newFrameRateHistory,
         adaptiveQuality   |-> IF changed THEN optimalQuality ELSE prev.adaptiveQuality,
         lastQualityChange |-> IF changed THEN currentTime ELSE prev.lastQualityChange]

(* An easing that adds a share of the target instead of a share of the
   distance to it. *)
AnimateMouseAbsolute(prev, t) ==
    [prev EXCEPT !.current = [i \in 1..2 |->
        prev.current[i] + (prev.target[i] * 100) \div 1000]]

(* A fade-out of the easing that has no floor. *)
currentEasingUnfloored(easingFactor, timeSinceLastMove) ==
    IF timeSinceLastMove > 100
    THEN (easingFactor * (1000 - (timeSinceLastMove - 100) \div 2)) \div 1000
    ELSE easingFactor

(* The easing animate applies, in thousandths: the factor, faded once the
   last input is more than 100 ms old. *)
currentEasing(easingFactor, timeSinceLastMove) ==
    IF timeSinceLastMove > 100
    THEN (easingFactor * Max(100, 1000 - (timeSinceLastMove - 100) \div 2)) \div 1000
    ELSE easingFactor

(* The updater animate passes to setMouseState: easing of current towards
   target (mouseEasing || 0.1, faded after 100 ms without input) and the
   velocity blend. *)
AnimateMouse(prev, t) ==
    LET easingFactor == IF mouseEasing # 0 THEN mouseEasing ELSE 100
        eased == currentEasing(easingFactor, t - prev.lastMoveTime)
        newCurrent == [i \in 1..2 |->
            prev.current[i] + ((prev.target[i] - prev.current[i]) * eased) \div 1000]
        actualVelocity == [i \in 1..2 |-> (newCurrent[i] - prev.current[i]) * 60]
    IN  [prev EXCEPT !.current = newCurrent,
                     !.velocity = [i \in 1..2 |->
                         (prev.velocity[i] * 9 + actualVelocity[i]) \div 10]]

-----------------------------------------------------------------------------
(* Context lifecycle: pure helpers *)

(* Which branch the component renders: the recovery notice and the fallback
   view hold no canvas element, so canvasRef.current is null under them. *)
CanvasMounted(recovery, fallback, webgl) ==
    /\ ~recovery.isRecovering
    /\ ~(fallback.isActive \/ webgl.hasError)

NoPreservedState ==
    [mouseState |-> Null, performanceState |-> Null,
     textureSource |-> Null, dimensions |-> Null]

preserveStateForRecovery(mouse, perf, textureSource, dims) ==
    [mouseState |-> Some(mouse), performanceState |-> Some(perf),
     textureSource |-> textureSource, dimensions |-> Some(dims)]

(* restoreStateAfterRecovery, one operator per setter it calls. *)
RestoredMouse(preserved, current) ==
    IF preserved.mouseState # Null THEN ValueOf(preserved.mouseState) ELSE current

RestoredPerformance(preserved, current, t) ==
    IF preserved.performanceState # Null
    THEN [ValueOf(preserved.performanceState) EXCEPT !.frameCount = 0,
                                                     !.lastFrameTime = t,
                                                     !.frameRateHistory = <<>>]
    ELSE current

RestoredDimensions(preserved, current) ==
    IF preserved.dimensions # Null THEN ValueOf(preserved.dimensions) ELSE current

calculateRecoveryDelay(attemptNumber, baseDelay, jitterTenths) ==
    LET exponentialDelay == baseDelay * (2 ^ attemptNumber)
        jitter == (jitterTenths * exponentialDelay) \div 10
    IN  Min(exponentialDelay + jitter, maxRecoveryDelay)

shouldAttemptRecovery(contextLossCount, lastContextLossTime, recoveryAttempts, maxAttempts, t) ==
    LET timeSinceLastLoss == t - lastContextLossTime
    IN  /\ recoveryAttempts < maxAttempts
        /\ timeSinceLastLoss > minTimeBetweenAttempts
        /\ contextLossCount < maxContextLossCount

(* activateFallbackMode: its update of fallbackState and of webglState. *)
FallbackActivated(fallback, reason) ==
    [fallback EXCEPT !.isActive = TRUE, !.reason = reason]

ErrorFlagged(webgl) == [webgl EXCEPT !.hasError = TRUE]

(* The state initializeWebGL sets on success. *)
InitializedWebglState ==
    [gl |-> TRUE, isInitialized |-> TRUE, hasError |-> FALSE, isContextLost |-> FALSE,
     contextLossCount |-> 0, lastContextLossTime |-> 0]

(* initializeWebGL with the canvas check skipped. *)
initializeWebGLNoCanvasCheck(canvas, gpu) ==
    IF gpu = "no_support" \/ gpu = "no_context" THEN "webgl_unavailable"
    ELSE IF gpu = "throws" THEN "initialization_failed"
    ELSE "ok"

(* initializeWebGL without the fallback shader program. *)
initializeWebGLNoFallbackShader(canvas, gpu) ==
    IF ~canvas THEN "initialization_failed"
    ELSE IF gpu = "no_support" \/ gpu = "no_context" THEN "webgl_unavailable"
    ELSE IF gpu = "ok" THEN "ok"
    ELSE "initialization_failed"

(* initializeWebGL without the try/catch around the setup steps: their
   exception leaves the function ("exception"). *)
initializeWebGLUncaught(canvas, gpu) ==
    IF ~canvas THEN "initialization_failed"
    ELSE IF gpu = "no_support" \/ gpu = "no_context" THEN "webgl_unavailable"
    ELSE IF gpu \in {"throws", "both_shaders_fail", "buffer_fails"} THEN "exception"
    ELSE "ok"

(* initializeWebGL: "ok" when it returns true, else the reason it hands to
   activateFallbackMode before returning false.  A primary shader program
   that fails to compile, link or validate is replaced by the fallback
   program; with both failing, or setupVertexBuffer throwing, the outer catch
   takes over. *)
initializeWebGL(canvas, gpu) ==
    IF ~canvas THEN "initialization_failed"
    ELSE IF gpu = "no_support" THEN "webgl_unavailable"
    ELSE IF gpu = "no_context" THEN "webgl_unavailable"
    ELSE IF gpu = "throws" THEN "initialization_failed"
    ELSE IF gpu = "primary_shader_fails" THEN "ok"
    ELSE IF gpu = "both_shaders_fail" THEN "initialization_failed"
    ELSE IF gpu = "buffer_fails" THEN "initialization_failed"
    ELSE "ok"

(* The shader program a successful initializeWebGL stores in webglState: the
   primary program, unless createShaderProgram threw for it or
   validateShaderProgram returned false, which throws into the same catch. *)
shaderProgram(gpu) ==
    IF gpu \in {"primary_shader_fails", "primary_validation_fails"} THEN "fallback"
    ELSE "primary"

(* handleResize as called from a render whose closure holds closureCaps and
   closureDims: the dimensions it leaves, given the dimensions set so far. *)
handleResize(canvas, closureCaps, closureDims, rect, current) ==
    IF ~canvas \/ ~closureCaps THEN current
    ELSE IF rect.width <= 0 \/ rect.height <= 0 THEN current
    ELSE IF /\ Abs(closureDims.width - rect.width) < 1
            /\ Abs(closureDims.height - rect.height) < 1 THEN current
    ELSE rect

(* The values a callback created by the current render closes over. *)
Closure ==
    [contextLossCount    |-> webglState.contextLossCount,
     lastContextLossTime |-> webglState.lastContextLossTime,
     recoveryAttempts    |-> contextRecoveryState.recoveryAttempts,
     preservedState      |-> contextRecoveryState.preservedState,
     dimensions          |-> dimensions,
     deviceCapabilities  |-> deviceCapabilities]

(* attemptContextRecovery up to its await, run with closure c at time t on
   the state (webgl, fallback, recovery, pending): the gate, then either the
   demotion or the backoff timer. *)
attemptContextRecovery(c, t, jitterTenths, webgl, fallback, recovery, pending) ==
    IF ~shouldAttemptRecovery(c.contextLossCount, c.lastContextLossTime,
                              c.recoveryAttempts, maxRecoveryAttempts, t)
    THEN [webgl    |-> ErrorFlagged(webgl),
          fallback |-> FallbackActivated(fallback, "context_loss_permanent"),
          recovery |-> [recovery EXCEPT !.isRecovering = FALSE],
          timers   |-> pending]
    ELSE [webgl    |-> webgl,
          fallback |-> fallback,
          recovery |-> recovery,
          timers   |-> Append(pending,
                          [kind |-> "delay",
                           due |-> t + calculateRecoveryDelay(c.recoveryAttempts,
                                                              recoveryDelay, jitterTenths),
                           currentTime |-> t,
                           closure |-> c])]

JitterChoices(c, t) ==
    IF shouldAttemptRecovery(c.contextLossCount, c.lastContextLossTime,
                             c.recoveryAttempts, maxRecoveryAttempts, t)
    THEN JitterTenths ELSE {0}

RemoveAt(s, i) == [j \in 1..(Len(s) - 1) |-> IF j < i THEN s[j] ELSE s[j + 1]]

-----------------------------------------------------------------------------
(* Effect dependency lists *)

HandleResizeDeps ==
    <<performanceState.adaptiveQuality, webglState.gl, webglState.isContextLost,
      deviceCapabilities, dimensions>>

AnimateDeps ==
    <<webglState.gl, webglState.isInitialized, dimensions, mouseState>>

AttemptDeps ==
    <<webglState.contextLossCount, webglState.lastContextLossTime,
      contextRecoveryState.recoveryAttempts, contextRecoveryState.preservedState,
      HandleResizeDeps>>

ListenerDeps ==
    <<mouseState, performanceState, dimensions,
      contextRecoveryState.isRecovering, AttemptDeps>>

CurrentDeps ==
    [init      |-> HandleResizeDeps,
     quality   |-> <<performanceState.adaptiveQuality, webglState.isInitialized,
                     HandleResizeDeps>>,
     anim      |-> <<webglState.isInitialized, AnimateDeps>>,
     listeners |-> ListenerDeps,
     monitor   |-> <<contextRecoveryState.isRecovering, webglState.isInitialized,
                     webglState.hasError, AttemptDeps>>,
     cleanup   |-> webglState]

Mounted == effectDeps # Null

Dirty(effect) == ~Mounted \/ ValueOf(effectDeps)[effect] # CurrentDeps[effect]

EffectsPending == effectDeps # Some(CurrentDeps)

(* What handleContextLoss and handleContextRestored of the current render
   close over. *)
ListenerClosure ==
    [mouseState       |-> mouseState,
     performanceState |-> performanceState,
     dimensions       |-> dimensions,
     isRecovering     |-> contextRecoveryState.isRecovering,
     attempt          |-> Closure]

(* The condition under which the monitor effect calls attemptContextRecovery. *)
MonitorStarts ==
    /\ Dirty("monitor")
    /\ contextRecoveryState.isRecovering
    /\ ~webglState.isInitialized
    /\ ~webglState.hasError
    /\ \/ now - contextRecoveryState.lastRecoveryTime > monitorInterval
       \/ contextRecoveryState.recoveryAttempts = 0

(* A cancellation that leaves the pending frame in place. *)
cancelAnimationFrameSkipped(scheduled) == scheduled

(* cancelAnimationFrame(animationFrameRef.current): no frame stays pending. *)
cancelAnimationFrame(scheduled) == FALSE

-----------------------------------------------------------------------------
(* Initial state: the first render, before any effect has run *)

HistoryInit == samples = <<>>

(* defaultProps *)
PropsInit == mouseEasing = 100

NoTexture ==
    [texture |-> Null, isLoading |-> FALSE, isLoaded |-> FALSE, hasError |-> FALSE]

(* The texture manager before the first run of the texture load effect. *)
TextureInit(src) ==
    /\ imageSrc = src
    /\ textureState = NoTexture
    /\ textureDeps = Null
    /\ loads = <<>>
    /\ textures = {}
    /\ chainsStarted = 0
    /\ texturesCreated = 0
    /\ deletesWhileLost = 0
    /\ gpuDeleted = {}
    /\ createsWhileLost = 0

(* The numeric defaults of defaultProps, in hundredths. *)
defaultProps ==
    [imageOpacity |-> 100, intensity |-> 50, radius |-> 30, falloff |-> 80,
     magneticStrength |-> 100, magneticPolarity |-> 100, rippleFrequency |-> 1000,
     rippleAmplitude |-> 50, rippleDecay |-> 200, vortexStrength |-> 200,
     vortexTightness |-> 100, gridSize |-> 2000, gridOpacity |-> 30,
     gridThickness |-> 100, animationSpeed |-> 100, interactionRadius |-> 30,
     interactionFalloff |-> 80]

(* A desktop device with devicePixelRatio 1, the size a canvas element has
   before any script sets it, and a parent that passes no numeric property. *)
RenderInit ==
    /\ props = [f \in DOMAIN defaultProps |-> Null]
    /\ autoAnimation = FALSE
    /\ prefersReducedMotion = FALSE
    /\ device = [devicePixelRatio |-> 100, isLowEndDevice |-> FALSE,
                 maxViewportDims |-> <<4096, 4096>>]
    /\ canvasSize = [width |-> 300, height |-> 150]

ScenarioInit ==
    /\ RenderInit
    /\ inputEvents = 0
    /\ mouseSmoothing = 80
    /\ lastInput = Null
    /\ uniforms = Null
    /\ fragment = Null
    /\ resizeLog = <<>>

AuxInit ==
    /\ ScenarioInit
    /\ HistoryInit
    /\ PropsInit
    /\ lastInit = Null
    /\ unmounted = FALSE
    /\ TextureInit("")

Init ==
    /\ AuxInit
    /\ now = 0
    /\ containerRect = [width |-> 300, height |-> 200]
    /\ webglState = [gl |-> FALSE, isInitialized |-> FALSE, hasError |-> FALSE,
                     isContextLost |-> FALSE, contextLossCount |-> 0,
                     lastContextLossTime |-> 0]
    /\ deviceCapabilities = FALSE
    /\ contextRecoveryState = [isRecovering |-> FALSE, recoveryAttempts |-> 0,
                               lastRecoveryTime |-> 0,
                               preservedState |-> NoPreservedState]
    /\ fallbackState = [isActive |-> FALSE, reason |-> "webgl_unavailable"]
    /\ mouseState = [current |-> <<0, 0>>, target |-> <<0, 0>>, velocity |-> <<0, 0>>,
                     isActive |-> FALSE, lastMoveTime |-> 0]
    /\ dimensions = [width |-> 0, height |-> 0]
    /\ performanceState = [frameCount |-> 0, lastFrameTime |-> 0,
                           frameRateHistory |-> <<>>, adaptiveQuality |-> "medium",
                           lastQualityChange |-> 0]
    /\ frameScheduled = FALSE
    /\ timers = <<>>
    /\ effectDeps = Null
    /\ listeners = Null
    /\ windowListener = Null
    /\ contextLost = FALSE
    /\ gpuFailed = FALSE
    /\ reinitCalls = 0
    /\ reinitFailures = 0
    /\ drawCalls = 0
    /\ lossSnapshots = <<>>
    /\ tierChanges = <<[time |-> 0, from |-> "medium", to |-> "medium"]>>

-----------------------------------------------------------------------------
(* Actions *)

TierChangesAfter(before, after, t) ==
    IF after.adaptiveQuality # before.adaptiveQuality
    THEN Append(tierChanges, [time |-> t, from |-> before.adaptiveQuality,
                              to |-> after.adaptiveQuality])
    ELSE tierChanges

(* performance.now() advances, by a free step or up to the next timer; a due
   timer fires before the clock passes it. *)
Tick ==
    /\ UNCHANGED auxVars
    /\ \E d \in {e \in TimeSteps : now + e <= MaxIdleTime}
                   \cup {timers[i].due - now : i \in 1..Len(timers)} :
          /\ d > 0
          /\ now + d <= MaxTime
          /\ \A i \in 1..Len(timers) : now + d <= timers[i].due
          /\ now' = now + d
    /\ UNCHANGED <<containerRect, webglState, deviceCapabilities, contextRecoveryState,
                   fallbackState, mouseState, dimensions, performanceState,
                   frameScheduled, timers, effectDeps, listeners, windowListener,
                   contextLost, gpuFailed, reinitCalls, reinitFailures, drawCalls,
                   lossSnapshots, tierChanges>>

(* The passive effects of the last committed render, in declaration order:
   cleanups of the effects whose dependencies changed, then the init effect,
   the window-resize effect, the quality effect, the animation effect, the
   context-listener effect and the recovery monitor.  All of them read the
   state of that render; their updates are committed together. *)
RunEffects ==
    /\ UNCHANGED auxVars
    /\ ~unmounted
    /\ EffectsPending
    /\ (Dirty("anim") /\ webglState.isInitialized) => drawCalls < MaxFrames
    /\ \E gpu \in (IF Dirty("init") THEN GpuOutcomes ELSE {"ok"}),
          jitterTenths \in (IF MonitorStarts THEN JitterChoices(Closure, now) ELSE {0}) :
        LET canvas == CanvasMounted(contextRecoveryState, fallbackState, webglState)
            initRuns == Dirty("init")
            result == initializeWebGL(canvas, gpu)
            success == initRuns /\ result = "ok"
            failure == initRuns /\ result # "ok"
            webgl1 == IF success THEN InitializedWebglState
                      ELSE IF failure THEN ErrorFlagged(webglState)
                      ELSE webglState
            fallback1 == IF failure THEN FallbackActivated(fallbackState, result)
                         ELSE fallbackState
            dims1 == IF success
                     THEN handleResize(canvas, deviceCapabilities, dimensions,
                                       containerRect, dimensions)
                     ELSE dimensions
            dims2 == IF Dirty("quality") /\ webglState.isInitialized
                     THEN handleResize(canvas, deviceCapabilities, dimensions,
                                       containerRect, dims1)
                     ELSE dims1
            animRuns == Dirty("anim")
            draws == animRuns /\ webglState.gl /\ webglState.isInitialized
            cancelled == IF animRuns \/ Dirty("cleanup")
                         THEN cancelAnimationFrame(frameScheduled)
                         ELSE frameScheduled
            perf1 == IF draws THEN AnimatePerformance(performanceState, now)
                     ELSE performanceState
            r == IF MonitorStarts
                 THEN attemptContextRecovery(Closure, now, jitterTenths, webgl1,
                                             fallback1, contextRecoveryState, timers)
                 ELSE [webgl |-> webgl1, fallback |-> fallback1,
                       recovery |-> contextRecoveryState, timers |-> timers]
        IN  /\ Len(r.timers) <= MaxTimers
            /\ webglState' = r.webgl
            /\ fallbackState' = r.fallback
            /\ contextRecoveryState' = r.recovery
            /\ timers' = r.timers
            /\ deviceCapabilities' = (success \/ deviceCapabilities)
            /\ dimensions' = dims2
            /\ performanceState' = perf1
            /\ mouseState' = IF draws THEN AnimateMouse(mouseState, now) ELSE mouseState
            /\ frameScheduled' = (draws \/ cancelled)
            /\ drawCalls' = IF draws THEN drawCalls + 1 ELSE drawCalls
            /\ tierChanges' = TierChangesAfter(performanceState, perf1, now)
            /\ listeners' = IF Dirty("listeners")
                            THEN (IF canvas THEN Some(ListenerClosure) ELSE Null)
                            ELSE listeners
            /\ windowListener' = Some([dimensions |-> dimensions,
                                       deviceCapabilities |-> deviceCapabilities])
            /\ gpuFailed' = (gpuFailed \/ (initRuns /\ gpu # "ok"))
            /\ effectDeps' = Some(CurrentDeps)
    /\ UNCHANGED <<now, containerRect, contextLost, reinitCalls, reinitFailures,
                   lossSnapshots>>

(* The requestAnimationFrame callback: animate of the render that scheduled it. *)
Frame ==
    /\ UNCHANGED auxVars
    /\ ~EffectsPending
    /\ frameScheduled
    /\ drawCalls < MaxFrames
    /\ performanceState' = AnimatePerformance(performanceState, now)
    /\ mouseState' = AnimateMouse(mouseState, now)
    /\ drawCalls' = drawCalls + 1
    /\ tierChanges' = TierChangesAfter(performanceState, performanceState', now)
    /\ UNCHANGED <<now, containerRect, webglState, deviceCapabilities,
                   contextRecoveryState, fallbackState, dimensions, frameScheduled,
                   timers, effectDeps, listeners, windowListener, contextLost,
                   gpuFailed, reinitCalls, reinitFailures, lossSnapshots>>

(* webglcontextlost on the canvas: handleContextLoss. *)
ContextLost ==
    /\ UNCHANGED auxVars
    /\ ~EffectsPending
    /\ listeners # Null
    /\ webglState.gl
    /\ ~contextLost
    /\ webglState.contextLossCount < MaxLosses
    /\ contextLost' = TRUE
    /\ frameScheduled' = cancelAnimationFrame(frameScheduled)
    /\ webglState' = [webglState EXCEPT !.isInitialized = FALSE,
                                        !.isContextLost = TRUE,
                                        !.contextLossCount = @ + 1,
                                        !.lastContextLossTime = now,
                                        !.hasError = FALSE]
    /\ contextRecoveryState' =
           [contextRecoveryState EXCEPT
               !.isRecovering = TRUE,
               !.preservedState =
                   preserveStateForRecovery(ValueOf(listeners).mouseState,
                                            ValueOf(listeners).performanceState,
                                            Null, ValueOf(listeners).dimensions)]
    /\ lossSnapshots' = Append(lossSnapshots,
                               [mouseState |-> mouseState, dimensions |-> dimensions,
                                performanceState |-> performanceState])
    /\ UNCHANGED <<now, containerRect, deviceCapabilities, fallbackState, mouseState,
                   dimensions, performanceState, timers, effectDeps, listeners,
                   windowListener, gpuFailed, reinitCalls, reinitFailures, drawCalls,
                   tierChanges>>

(* webglcontextrestored on the canvas: handleContextRestored. *)
ContextRestored ==
    /\ UNCHANGED auxVars
    /\ listeners # Null
    /\ contextLost
    /\ contextLost' = FALSE
    /\ \E jitterTenths \in JitterChoices(ValueOf(listeners).attempt, now) :
        LET recovery1 == IF ~ValueOf(listeners).isRecovering
                         THEN [contextRecoveryState EXCEPT !.isRecovering = TRUE,
                                                           !.recoveryAttempts = 0]
                         ELSE contextRecoveryState
            r == attemptContextRecovery(ValueOf(listeners).attempt, now, jitterTenths,
                                        webglState, fallbackState, recovery1, timers)
        IN  /\ Len(r.timers) <= MaxTimers
            /\ webglState' = r.webgl
            /\ fallbackState' = r.fallback
            /\ contextRecoveryState' = r.recovery
            /\ timers' = r.timers
    /\ UNCHANGED <<now, containerRect, deviceCapabilities, mouseState, dimensions,
                   performanceState, frameScheduled, effectDeps, listeners,
                   windowListener, gpuFailed, reinitCalls, reinitFailures, drawCalls,
                   lossSnapshots, tierChanges>>

(* The backoff delay of attemptContextRecovery elapses: the attempt counter
   is bumped, initializeWebGL runs, and the attempt ends in the restore, the
   demotion or the re-armed retry. *)
RecoveryTimerFires(i) ==
    /\ UNCHANGED auxVars
    /\ ~unmounted
    /\ timers[i].kind = "delay"
    /\ timers[i].due <= now
    /\ reinitCalls < MaxReinitCalls
    /\ \E gpu \in GpuOutcomes :
        LET c == timers[i].closure
            canvas == CanvasMounted(contextRecoveryState, fallbackState, webglState)
            result == initializeWebGL(canvas, gpu)
            success == result = "ok"
            lastAttempt == c.recoveryAttempts >= maxRecoveryAttempts
            recovery1 == [contextRecoveryState EXCEPT
                              !.recoveryAttempts = @ + 1,
                              !.lastRecoveryTime = timers[i].currentTime]
            restoredPerf == RestoredPerformance(c.preservedState, performanceState, now)
        IN  /\ webglState' =
                   IF success THEN InitializedWebglState
                   ELSE ErrorFlagged(webglState)
            /\ fallbackState' =
                   IF success THEN fallbackState
                   ELSE IF lastAttempt
                        THEN FallbackActivated(FallbackActivated(fallbackState, result),
                                               "context_loss_permanent")
                   ELSE FallbackActivated(fallbackState, result)
            /\ contextRecoveryState' =
                   IF success
                   THEN [recovery1 EXCEPT !.isRecovering = FALSE,
                                          !.recoveryAttempts = 0,
                                          !.preservedState = NoPreservedState]
                   ELSE IF lastAttempt THEN [recovery1 EXCEPT !.isRecovering = FALSE]
                   ELSE recovery1
            /\ timers' =
                   IF success \/ lastAttempt THEN RemoveAt(timers, i)
                   ELSE Append(RemoveAt(timers, i),
                               [kind |-> "retry", due |-> now + retryInterval,
                                currentTime |-> now, closure |-> c])
            /\ deviceCapabilities' = (success \/ deviceCapabilities)
            /\ mouseState' = IF success THEN RestoredMouse(c.preservedState, mouseState)
                             ELSE mouseState
            /\ performanceState' = IF success THEN restoredPerf ELSE performanceState
            /\ dimensions' =
                   IF success
                   THEN handleResize(canvas, c.deviceCapabilities, c.dimensions,
                                     containerRect,
                                     RestoredDimensions(c.preservedState, dimensions))
                   ELSE dimensions
            /\ tierChanges' =
                   IF success THEN TierChangesAfter(performanceState, restoredPerf, now)
                   ELSE tierChanges
            /\ gpuFailed' = (gpuFailed \/ gpu # "ok")
            /\ reinitFailures' = IF success THEN reinitFailures ELSE reinitFailures + 1
    /\ reinitCalls' = reinitCalls + 1
    /\ UNCHANGED <<now, containerRect, frameScheduled, effectDeps, listeners,
                   windowListener, contextLost, drawCalls, lossSnapshots>>

(* setTimeout(() => attemptContextRecovery(), 100) of a failed attempt fires:
   the same callback runs again, with the values it closed over. *)
RetryTimerFires(i) ==
    /\ UNCHANGED auxVars
    /\ ~unmounted
    /\ timers[i].kind = "retry"
    /\ timers[i].due <= now
    /\ \E jitterTenths \in JitterChoices(timers[i].closure, now) :
        LET r == attemptContextRecovery(timers[i].closure, now, jitterTenths,
                                        webglState, fallbackState,
                                        contextRecoveryState, RemoveAt(timers, i))
        IN  /\ webglState' = r.webgl
            /\ fallbackState' = r.fallback
            /\ contextRecoveryState' = r.recovery
            /\ timers' = r.timers
    /\ UNCHANGED <<now, containerRect, deviceCapabilities, mouseState, dimensions,
                   performanceState, frameScheduled, effectDeps, listeners,
                   windowListener, contextLost, gpuFailed, reinitCalls,
                   reinitFailures, drawCalls, lossSnapshots, tierChanges>>

(* onMouseEnter on the canvas: handleMouseEnter. *)
MouseEnter(p) ==
    /\ UNCHANGED auxVars
    /\ ~EffectsPending
    /\ CanvasMounted(contextRecoveryState, fallbackState, webglState)
    /\ mouseState' = [mouseState EXCEPT !.current = p, !.target = p,
                                        !.velocity = <<0, 0>>, !.isActive = TRUE,
                                        !.lastMoveTime = now]
    /\ ~mouseState.isActive
    /\ UNCHANGED <<now, containerRect, webglState, deviceCapabilities,
                   contextRecoveryState, fallbackState, dimensions, performanceState,
                   frameScheduled, timers, effectDeps, listeners, windowListener,
                   contextLost, gpuFailed, reinitCalls, reinitFailures, drawCalls,
                   lossSnapshots, tierChanges>>

(* The container is resized and the window resize listener calls handleResize. *)
WindowResize(rect) ==
    /\ UNCHANGED auxVars
    /\ ~EffectsPending
    /\ windowListener # Null
    /\ rect.width > containerRect.width
    /\ containerRect' = rect
    /\ dimensions' = handleResize(CanvasMounted(contextRecoveryState, fallbackState,
                                                webglState),
                                  ValueOf(windowListener).deviceCapabilities,
                                  ValueOf(windowListener).dimensions, rect, dimensions)
    /\ UNCHANGED <<now, webglState, deviceCapabilities, contextRecoveryState,
                   fallbackState, mouseState, performanceState, frameScheduled,
                   timers, effectDeps, listeners, windowListener, contextLost,
                   gpuFailed, reinitCalls, reinitFailures, drawCalls, lossSnapshots,
                   tierChanges>>

Next ==
    \/ Tick
    \/ RunEffects
    \/ Frame
    \/ ContextLost
    \/ ContextRestored
    \/ \E i \in 1..Len(timers) : RecoveryTimerFires(i)
    \/ \E i \in 1..Len(timers) : RetryTimerFires(i)
    \/ \E p \in MousePoints : MouseEnter(p)
    \/ \E rect \in ContainerSizes : WindowResize(rect)

Spec == Init /\ [][Next]_vars

-----------------------------------------------------------------------------
(* The adaptive quality controller on its own: the component is Running, the
   GPU keeps answering, and frames arrive FrameDeltas apart.  One step is the
   wait for the frame, animate, and the effects of the render it causes (a
   tier change re-runs the init and quality effects, which leave the state
   as it is when the container has not changed). *)

RunningAt(quality) ==
    /\ now = 0
    /\ containerRect = [width |-> 300, height |-> 200]
    /\ webglState = InitializedWebglState
    /\ deviceCapabilities = TRUE
    /\ contextRecoveryState = [isRecovering |-> FALSE, recoveryAttempts |-> 0,
                               lastRecoveryTime |-> 0,
                               preservedState |-> NoPreservedState]
    /\ fallbackState = [isActive |-> FALSE, reason |-> "webgl_unavailable"]
    /\ mouseState = [current |-> <<0, 0>>, target |-> <<0, 0>>, velocity |-> <<0, 0>>,
                     isActive |-> FALSE, lastMoveTime |-> 0]
    /\ dimensions = containerRect
    /\ performanceState = [frameCount |-> 0, lastFrameTime |-> 0,
                           frameRateHistory |-> <<>>, adaptiveQuality |-> quality,
                           lastQualityChange |-> 0]
    /\ tierChanges = <<[time |-> 0, from |-> quality, to |-> quality]>>
    /\ frameScheduled = TRUE
    /\ timers = <<>>
    /\ effectDeps = Some(CurrentDeps)
    /\ listeners = Some(ListenerClosure)
    /\ windowListener = Some([dimensions |-> dimensions,
                              deviceCapabilities |-> deviceCapabilities])
    /\ contextLost = FALSE
    /\ gpuFailed = FALSE
    /\ reinitCalls = 0
    /\ reinitFailures = 0
    /\ drawCalls = 0
    /\ lossSnapshots = <<>>

Running == \E quality \in Qualities : RunningAt(quality)

QInit ==
    /\ AuxInit
    /\ Running

(* animate for the frame that comes dt after the last, and the render it
   causes, on the variables of the renderer. *)
animateFrame(dt) ==
    /\ frameScheduled
    /\ drawCalls < QMaxFrames
    /\ now + dt <= QMaxTime
    /\ now' = now + dt
    /\ performanceState' = AnimatePerformance(performanceState, now')
    /\ mouseState' = AnimateMouse(mouseState, now')
    /\ drawCalls' = drawCalls + 1
    /\ tierChanges' = TierChangesAfter(performanceState, performanceState', now')
    /\ UNCHANGED <<containerRect, webglState, deviceCapabilities,
                   contextRecoveryState, fallbackState, dimensions, frameScheduled,
                   timers, contextLost, gpuFailed, reinitCalls, reinitFailures,
                   lossSnapshots>>
    /\ effectDeps' = Some(CurrentDeps')
    /\ listeners' = Some(ListenerClosure')
    /\ windowListener' = windowListener

QFrame(dt) ==
    /\ UNCHANGED auxVars
    /\ animateFrame(dt)

QNext == \E dt \in FrameDeltas : QFrame(dt)

QualitySpec == QInit /\ [][QNext]_vars

-----------------------------------------------------------------------------
(* The context lifecycle with an unmount: the effect cleanups run, and the
   timers attemptContextRecovery has armed stay armed. *)

(* The component is unmounted: every effect cleanup runs.  The resize and
   context listeners are removed, the pending animation frame is cancelled;
   no cleanup touches the timers of attemptContextRecovery. *)
Unmount ==
    /\ ~unmounted
    /\ ~EffectsPending
    /\ unmounted' = TRUE
    /\ frameScheduled' = cancelAnimationFrame(frameScheduled)
    /\ listeners' = Null
    /\ windowListener' = Null
    /\ effectDeps' = Null
    /\ UNCHANGED <<now, containerRect, webglState, deviceCapabilities,
                   contextRecoveryState, fallbackState, mouseState, dimensions,
                   performanceState, timers, contextLost, gpuFailed, reinitCalls,
                   reinitFailures, drawCalls, lossSnapshots, tierChanges, samples,
                   mouseEasing, lastInit>>
    /\ UNCHANGED textureVars
    /\ UNCHANGED scenarioVars

(* A timer of attemptContextRecovery fires after the unmount.  The
   continuation runs as before with the values it closed over; canvasRef is
   null and the state setters of the unmounted component change nothing. *)
LateTimerFires(i) ==
    /\ unmounted
    /\ timers[i].due <= now
    /\ reinitCalls < MaxReinitCalls
    /\ LET c == timers[i].closure
           lastAttempt == c.recoveryAttempts >= maxRecoveryAttempts
       IN  IF timers[i].kind = "delay"
           THEN /\ initializeWebGL(FALSE, "ok") # "ok"
                /\ reinitCalls' = reinitCalls + 1
                /\ reinitFailures' = reinitFailures + 1
                /\ timers' =
                       IF lastAttempt THEN RemoveAt(timers, i)
                       ELSE Append(RemoveAt(timers, i),
                                   [kind |-> "retry", due |-> now + retryInterval,
                                    currentTime |-> now, closure |-> c])
           ELSE /\ \E jitterTenths \in JitterChoices(c, now) :
                      timers' = attemptContextRecovery(c, now, jitterTenths, webglState,
                                                       fallbackState, contextRecoveryState,
                                                       RemoveAt(timers, i)).timers
                /\ UNCHANGED <<reinitCalls, reinitFailures>>
    /\ UNCHANGED <<now, containerRect, webglState, deviceCapabilities,
                   contextRecoveryState, fallbackState, mouseState, dimensions,
                   performanceState, frameScheduled, effectDeps, listeners,
                   windowListener, contextLost, gpuFailed, drawCalls, lossSnapshots,
                   tierChanges>>
    /\ UNCHANGED auxVars

UNext ==
    \/ Tick
    \/ RunEffects
    \/ Frame
    \/ ContextLost
    \/ ContextRestored
    \/ \E i \in 1..Len(timers) : RecoveryTimerFires(i)
    \/ \E i \in 1..Len(timers) : RetryTimerFires(i)
    \/ Unmount
    \/ \E i \in 1..Len(timers) : LateTimerFires(i)

UnmountSpec == Init /\ [][UNext]_vars

-----------------------------------------------------------------------------
(* The frame-rate history on its own: a long run of frames of a renderer that
   keeps running. The first frame comes after one of HFirstDeltas
   milliseconds; the later ones follow a fixed uneven rhythm around it. *)

HFirstDeltas == {10, 16, 25}

HDelta(first, k) == first + ((k * 7) % 13)

HDeltas ==
    IF samples = <<>> THEN HFirstDeltas
    ELSE {HDelta((1000 * 1000) \div samples[1], Len(samples))}

HFrame(dt) ==
    /\ UNCHANGED scenarioVars
    /\ frameScheduled
    /\ Len(samples) < HMaxFrames
    /\ now' = now + dt
    /\ performanceState' = AnimatePerformance(performanceState, now')
    /\ mouseState' = AnimateMouse(mouseState, now')
    /\ samples' = Append(samples, calculateFrameRate(now', performanceState.lastFrameTime))
    /\ UNCHANGED <<mouseEasing, lastInit, unmounted, textureVars>>
    /\ drawCalls' = drawCalls + 1
    /\ tierChanges' = TierChangesAfter(performanceState, performanceState', now')
    /\ UNCHANGED <<containerRect, webglState, deviceCapabilities,
                   contextRecoveryState, fallbackState, dimensions, frameScheduled,
                   timers, contextLost, gpuFailed, reinitCalls, reinitFailures,
                   lossSnapshots>>
    /\ effectDeps' = Some(CurrentDeps')
    /\ listeners' = Some(ListenerClosure')
    /\ windowListener' = windowListener

HNext == \E dt \in HDeltas : HFrame(dt)

HistorySpec == QInit /\ [][HNext]_vars

-----------------------------------------------------------------------------
(* The pointer easing on its own: a running renderer with any configured
   mouseEasing, frames close together and far apart, and pointer moves
   between them. *)

EasingFactors == {0, 10, 100, 1000}

EFrameDeltas == {16, 1500}

EPoints == {<<250, 750>>, <<400, 600>>, <<900, 100>>}

EInit ==
    /\ ScenarioInit
    /\ Running
    /\ HistoryInit
    /\ lastInit = Null
    /\ unmounted = FALSE
    /\ TextureInit("")
    /\ mouseEasing \in EasingFactors

(* handleMouseMove, with the default mouseSmoothing 0.8; at most one move is
   taken per instant. *)
EMouseMove(p) ==
    /\ mouseState.lastMoveTime < now \/ ~mouseState.isActive
    /\ CanvasMounted(contextRecoveryState, fallbackState, webglState)
    /\ LET dt == Max(now - mouseState.lastMoveTime, 1)
           d == [i \in 1..2 |-> p[i] - mouseState.target[i]]
           maxVelocity == 5000 * 1000
           clamped == [i \in 1..2 |->
               Max(-maxVelocity, Min(maxVelocity, (d[i] * 1000) \div dt))]
       IN  mouseState' =
               IF Abs(d[1]) > 500 \/ Abs(d[2]) > 500
               THEN [current |-> p, target |-> p, velocity |-> <<0, 0>>,
                     isActive |-> TRUE, lastMoveTime |-> now]
               ELSE [current |-> mouseState.current, target |-> p,
                     velocity |-> [i \in 1..2 |->
                         (mouseState.velocity[i] * 8 + clamped[i] * 2) \div 10],
                     isActive |-> TRUE, lastMoveTime |-> now]
    /\ mouseState' # mouseState
    /\ UNCHANGED <<now, containerRect, webglState, deviceCapabilities,
                   contextRecoveryState, fallbackState, dimensions, performanceState,
                   frameScheduled, timers, windowListener, contextLost, gpuFailed,
                   reinitCalls, reinitFailures, drawCalls, lossSnapshots, tierChanges>>
    /\ UNCHANGED auxVars
    /\ effectDeps' = Some(CurrentDeps')
    /\ listeners' = Some(ListenerClosure')

EFrame(dt) ==
    /\ frameScheduled
    /\ drawCalls < EMaxFrames
    /\ now' = now + dt
    /\ performanceState' = AnimatePerformance(performanceState, now')
    /\ mouseState' = AnimateMouse(mouseState, now')
    /\ drawCalls' = drawCalls + 1
    /\ tierChanges' = TierChangesAfter(performanceState, performanceState', now')
    /\ UNCHANGED <<containerRect, webglState, deviceCapabilities,
                   contextRecoveryState, fallbackState, dimensions, frameScheduled,
                   timers, contextLost, gpuFailed, reinitCalls, reinitFailures,
                   lossSnapshots>>
    /\ effectDeps' = Some(CurrentDeps')
    /\ listeners' = Some(ListenerClosure')
    /\ windowListener' = windowListener
    /\ UNCHANGED auxVars

ENext ==
    \/ \E dt \in EFrameDeltas : EFrame(dt)
    \/ \E p \in EPoints : EMouseMove(p)

EasingSpec == EInit /\ [][ENext]_vars

-----------------------------------------------------------------------------
(* One run of the init effect followed on its own, from each state in which
   the effect runs: the first render, a render of the running component whose
   handleResize has changed, and the recovery notice shown after a context
   loss (which holds no canvas). *)

InitScenarios == {"mount", "rerun", "recovering"}

IInit ==
    /\ ScenarioInit
    /\ HistoryInit
    /\ PropsInit
    /\ lastInit = Null
    /\ unmounted = FALSE
    /\ TextureInit("")
    /\ now = 0
    /\ containerRect \in ContainerSizes
    /\ \E scenario \in InitScenarios :
          /\ webglState =
                IF scenario = "mount"
                THEN [gl |-> FALSE, isInitialized |-> FALSE, hasError |-> FALSE,
                      isContextLost |-> FALSE, contextLossCount |-> 0,
                      lastContextLossTime |-> 0]
                ELSE IF scenario = "rerun" THEN InitializedWebglState
                ELSE [InitializedWebglState EXCEPT !.isInitialized = FALSE,
                                                   !.isContextLost = TRUE,
                                                   !.contextLossCount = 1]
          /\ deviceCapabilities = (scenario # "mount")
          /\ contextRecoveryState = [isRecovering |-> scenario = "recovering",
                                     recoveryAttempts |-> 0, lastRecoveryTime |-> 0,
                                     preservedState |-> NoPreservedState]
          /\ dimensions = IF scenario = "mount" THEN [width |-> 0, height |-> 0]
                          ELSE [width |-> 300, height |-> 200]
          /\ frameScheduled = (scenario = "rerun")
          /\ contextLost = (scenario = "recovering")
    /\ fallbackState = [isActive |-> FALSE, reason |-> "webgl_unavailable"]
    /\ mouseState = [current |-> <<0, 0>>, target |-> <<0, 0>>, velocity |-> <<0, 0>>,
                     isActive |-> FALSE, lastMoveTime |-> 0]
    /\ \E quality \in Qualities :
          /\ performanceState = [frameCount |-> 0, lastFrameTime |-> 0,
                                 frameRateHistory |-> <<>>, adaptiveQuality |-> quality,
                                 lastQualityChange |-> 0]
          /\ tierChanges = <<[time |-> 0, from |-> quality, to |-> quality]>>
    /\ timers = <<>>
    /\ effectDeps = Null
    /\ listeners = Null
    /\ windowListener = Null
    /\ gpuFailed = FALSE
    /\ reinitCalls = 0
    /\ reinitFailures = 0
    /\ drawCalls = 0
    /\ lossSnapshots = <<>>

(* The init effect: initializeWebGL(), then handleResize() when it returned
   true. *)
IInitialize(gpu) ==
    /\ UNCHANGED scenarioVars
    /\ lastInit = Null
    /\ LET canvas == CanvasMounted(contextRecoveryState, fallbackState, webglState)
           result == initializeWebGL(canvas, gpu)
           failure == result \in {"webgl_unavailable", "initialization_failed"}
       IN  /\ webglState' = IF result = "ok" THEN InitializedWebglState
                            ELSE IF failure THEN ErrorFlagged(webglState)
                            ELSE webglState
           /\ fallbackState' = IF failure THEN FallbackActivated(fallbackState, result)
                               ELSE fallbackState
           /\ deviceCapabilities' = ((result = "ok") \/ deviceCapabilities)
           /\ dimensions' = IF result = "ok"
                            THEN handleResize(canvas, deviceCapabilities, dimensions,
                                              containerRect, dimensions)
                            ELSE dimensions
           /\ gpuFailed' = (gpu # "ok")
           /\ lastInit' = Some([canvas |-> canvas, gpu |-> gpu, result |-> result,
                                program |-> IF result = "ok" THEN shaderProgram(gpu)
                                            ELSE "none",
                                wasInitialized |-> webglState.isInitialized])
    /\ UNCHANGED <<now, containerRect, contextRecoveryState, mouseState,
                   performanceState, frameScheduled, timers, effectDeps, listeners,
                   windowListener, contextLost, reinitCalls, reinitFailures, drawCalls,
                   lossSnapshots, tierChanges, samples, mouseEasing, unmounted>>
    /\ UNCHANGED textureVars

INext == \E gpu \in InitOutcomes : IInitialize(gpu)

InitSpec == IInit /\ [][INext]_vars

-----------------------------------------------------------------------------
(* The texture manager: a running renderer whose imageSrc is loaded, retried,
   replaced and cleared, up to a context loss and past an unmount.  The frames
   themselves and the tier they adapt are followed in the specifications
   above; here the tier is held and only the scheduling of the next frame is
   followed.  The recovery that follows a context loss is not followed
   either.  The effects of a commit are taken with the step that commits. *)

TSources == {"a.png", "b.png"}

(* What loadImage settles with: the image, or the message of its rejection. *)
ImageOutcomes ==
    {"loaded", "Failed to load image", "Image loading timeout",
     "Invalid image dimensions"}

(* The catch branch retries the messages that include "Failed to load image",
   "timeout" or "network". *)
Retryable(errorMessage) ==
    errorMessage \in {"Failed to load image", "Image loading timeout"}

(* A retry delay that does not grow. *)
retryDelayFlat(retryCount) == 1000

retryDelay(retryCount) == 1000 * 2^retryCount

(* No placeholder is ever created. *)
placeholderSkipped(closure) == FALSE

(* The guard of the placeholder creation in the catch branch. *)
placeholderWanted(closure) ==
    closure.gl /\ ~closure.isContextLost /\ closure.deviceCapabilities

(* What loadTexture of the current render closes over. *)
LoadClosure ==
    [gl |-> webglState.gl, isContextLost |-> webglState.isContextLost,
     deviceCapabilities |-> deviceCapabilities]

TextureDeps == <<webglState.isInitialized, imageSrc, LoadClosure>>

TextureEffectPending == textureDeps # Some(TextureDeps)

NewTexture(kind) == [id |-> texturesCreated + 1, kind |-> kind]

(* The gl.createTexture() calls loadTexture makes after its await, for the
   load l settled with outcome: one of createTextureFromImage when the image
   loaded and the closure holds a context it takes for valid, and one of
   createPlaceholderTexture when the catch branch is past the retries and its
   guard holds.  lost tells whether the first returns null, which throws. *)
createTextureCalls(l, outcome, lost) ==
    LET creates == l.closure.gl /\ ~l.closure.isContextLost
        failed == outcome # "loaded" \/ (creates /\ lost)
        retried == outcome # "loaded" /\ l.retryCount < maxRetries /\ Retryable(outcome)
    IN  (IF outcome = "loaded" /\ creates THEN 1 ELSE 0)
        + (IF failed /\ ~retried /\ placeholderWanted(l.closure) THEN 1 ELSE 0)

(* loadTexture after its await: the load l has settled with outcome while
   the state is prev; lost tells whether gl.createTexture() returns null.
   The result tells whether a retry is armed, the texture created if any, and
   the state the setTextureState calls leave. *)
loadTextureSettled(l, outcome, prev, lost) ==
    LET creates == l.closure.gl /\ ~l.closure.isContextLost
        errorMessage ==
            IF outcome # "loaded" THEN outcome
            ELSE IF creates /\ lost THEN "Failed to create WebGL texture"
            ELSE ""
    IN  IF errorMessage = ""
        THEN LET texture == IF creates THEN Some(NewTexture("image")) ELSE Null
             IN  [retry |-> FALSE, errorMessage |-> errorMessage, created |-> texture,
                  state |-> [texture |-> texture, isLoading |-> FALSE,
                             isLoaded |-> TRUE, hasError |-> FALSE]]
        ELSE IF l.retryCount < maxRetries /\ Retryable(errorMessage)
        THEN [retry |-> TRUE, errorMessage |-> errorMessage, created |-> Null,
              state |-> prev]
        ELSE IF placeholderWanted(l.closure) /\ ~lost
        THEN LET texture == Some(NewTexture("placeholder"))
             IN  [retry |-> FALSE, errorMessage |-> errorMessage, created |-> texture,
                  state |-> [prev EXCEPT !.isLoading = FALSE, !.hasError = FALSE,
                                         !.texture = texture]]
        ELSE [retry |-> FALSE, errorMessage |-> errorMessage, created |-> Null,
              state |-> [prev EXCEPT !.isLoading = FALSE, !.hasError = TRUE]]

(* The cleanup of the texture cleanup effect, run when the committed texture
   differs from the one of the render before: cleanupTexture on the texture of
   that render.  The result is the textures left and the deletion calls made. *)
TextureCleanup(old, new, live) ==
    IF new.texture # old.texture /\ webglState.gl /\ old.texture # Null
    THEN [live |-> live \ {ValueOf(old.texture)}, deletions |-> 1]
    ELSE [live |-> live, deletions |-> 0]

(* cleanupWebGLResources on the webglState of a render, lost telling whether
   gl.getError() answers CONTEXT_LOST_WEBGL: the program and the vertex buffer
   it deletes.  (Its deleteTexture is on the texture of that render, which
   TextureCleanup has deleted.) *)
cleanupWebGLResources(webgl, lost) ==
    IF webgl.gl /\ ~webgl.isContextLost /\ ~lost
    THEN IF webgl.isInitialized THEN {"vertexBuffer", "program"} ELSE {}
    ELSE {}

(* animate: whether the frame tells the shader that a texture is available
   and binds textureState.texture. *)
hasTexture(state) == state.isLoaded /\ state.texture # Null

(* The animation effect of a commit that changed textureState, which animate
   depends on: its cleanup cancels the pending frame and, when the renderer is
   initialized, animate runs and schedules the next one. *)
FrameAfterTextureCommit ==
    webglState.isInitialized \/ cancelAnimationFrame(frameScheduled)

TInit ==
    /\ ScenarioInit
    /\ RunningAt("medium")
    /\ HistoryInit
    /\ PropsInit
    /\ lastInit = Null
    /\ unmounted = FALSE
    /\ TextureInit("a.png")

(* The texture load effect: loadTexture(imageSrc) up to its await, when the
   renderer is initialized. *)
TextureEffect ==
    /\ UNCHANGED scenarioVars
    /\ ~unmounted
    /\ TextureEffectPending
    /\ textureDeps' = Some(TextureDeps)
    /\ IF ~webglState.isInitialized
       THEN UNCHANGED <<textureState, loads, textures, chainsStarted, deletesWhileLost,
                        frameScheduled>>
       ELSE IF imageSrc = ""
       THEN LET cleanup == TextureCleanup(textureState, NoTexture, textures)
            IN  /\ textureState' = NoTexture
                /\ textures' = cleanup.live
                /\ deletesWhileLost' =
                       deletesWhileLost + (IF contextLost THEN cleanup.deletions ELSE 0)
                /\ frameScheduled' = FrameAfterTextureCommit
                /\ UNCHANGED <<loads, chainsStarted>>
       ELSE /\ textureState' = [textureState EXCEPT !.isLoading = TRUE,
                                                    !.hasError = FALSE]
            /\ loads' = Append(loads,
                   [chain |-> chainsStarted + 1, src |-> imageSrc, retryCount |-> 0,
                    phase |-> "image", startedAt |-> now, errorMessage |-> "",
                    failedAt |-> 0, due |-> 0, closure |-> LoadClosure])
            /\ chainsStarted' = chainsStarted + 1
            /\ frameScheduled' = FrameAfterTextureCommit
            /\ UNCHANGED <<textures, deletesWhileLost>>
    /\ UNCHANGED <<now, containerRect, webglState, deviceCapabilities,
                   contextRecoveryState, fallbackState, mouseState, dimensions,
                   performanceState, timers, effectDeps, listeners, windowListener,
                   contextLost, gpuFailed, reinitCalls, reinitFailures, drawCalls,
                   lossSnapshots, tierChanges, samples, mouseEasing, lastInit,
                   unmounted, imageSrc, texturesCreated, gpuDeleted,
                   createsWhileLost>>

(* loadImage of the load i settles and loadTexture goes on after its await.
   The timeout of loadImage rejects imageTimeout after the load began; any
   other outcome comes before that.  The state setters of an unmounted
   component change nothing. *)
ImageSettles(i, outcome) ==
    /\ UNCHANGED scenarioVars
    /\ loads[i].phase = "image"
    /\ IF outcome = "Image loading timeout"
       THEN now = loads[i].startedAt + imageTimeout
       ELSE now < loads[i].startedAt + imageTimeout
    /\ LET l == loads[i]
           r == loadTextureSettled(l, outcome, textureState, contextLost)
           created == IF r.created = Null THEN {} ELSE {ValueOf(r.created)}
           cleanup == TextureCleanup(textureState, r.state, textures \cup created)
       IN  /\ loads' = IF r.retry
                       THEN [loads EXCEPT ![i] =
                                [l EXCEPT !.phase = "timer", !.startedAt = 0,
                                          !.errorMessage = r.errorMessage,
                                          !.failedAt = now,
                                          !.due = now + retryDelay(l.retryCount)]]
                       ELSE RemoveAt(loads, i)
           /\ texturesCreated' = texturesCreated + Cardinality(created)
           /\ createsWhileLost' =
                  createsWhileLost
                  + (IF contextLost THEN createTextureCalls(l, outcome, contextLost) ELSE 0)
           /\ IF unmounted \/ r.retry
              THEN /\ textures' = textures \cup created
                   /\ UNCHANGED <<textureState, deletesWhileLost, frameScheduled,
                                  gpuDeleted>>
              ELSE /\ textureState' = r.state
                   /\ gpuDeleted' =
                          IF r.errorMessage = "" \/ r.created # Null
                          THEN gpuDeleted \cup cleanupWebGLResources(webglState, contextLost)
                          ELSE gpuDeleted
                   /\ textures' = cleanup.live
                   /\ deletesWhileLost' =
                          deletesWhileLost + (IF contextLost THEN cleanup.deletions ELSE 0)
                   /\ frameScheduled' = FrameAfterTextureCommit
    /\ UNCHANGED <<now, containerRect, webglState, deviceCapabilities,
                   contextRecoveryState, fallbackState, mouseState, dimensions,
                   performanceState, timers, effectDeps, listeners, windowListener,
                   contextLost, gpuFailed, reinitCalls, reinitFailures, drawCalls,
                   lossSnapshots, tierChanges, samples, mouseEasing, lastInit,
                   unmounted, imageSrc, textureDeps, chainsStarted>>

(* The retry timer of the load i fires: loadTexture(src, retryCount + 1) up
   to its await. *)
RetryFires(i) ==
    /\ UNCHANGED scenarioVars
    /\ loads[i].phase = "timer"
    /\ loads[i].due <= now
    /\ LET l == loads[i]
       IN  /\ loads' = [loads EXCEPT ![i] =
                           [l EXCEPT !.phase = "image", !.retryCount = @ + 1,
                                     !.startedAt = now, !.errorMessage = "",
                                     !.failedAt = 0, !.due = 0]]
    /\ IF unmounted
       THEN UNCHANGED <<textureState, frameScheduled>>
       ELSE /\ textureState' = [textureState EXCEPT !.isLoading = TRUE,
                                                    !.hasError = FALSE]
            /\ frameScheduled' = FrameAfterTextureCommit
    /\ UNCHANGED <<now, containerRect, webglState, deviceCapabilities,
                   contextRecoveryState, fallbackState, mouseState, dimensions,
                   performanceState, timers, effectDeps, listeners, windowListener,
                   contextLost, gpuFailed, reinitCalls, reinitFailures, drawCalls,
                   lossSnapshots, tierChanges, samples, mouseEasing, lastInit,
                   unmounted, imageSrc, textureDeps, textures, chainsStarted,
                   texturesCreated, deletesWhileLost, gpuDeleted,
                   createsWhileLost>>

(* The parent renders the component with another imageSrc. *)
SourceChange(src) ==
    /\ UNCHANGED scenarioVars
    /\ ~unmounted
    /\ ~TextureEffectPending
    /\ src # imageSrc
    /\ chainsStarted < TMaxChains
    /\ imageSrc' = src
    /\ UNCHANGED <<now, containerRect, webglState, deviceCapabilities,
                   contextRecoveryState, fallbackState, mouseState, dimensions,
                   performanceState, frameScheduled, timers, effectDeps, listeners,
                   windowListener, contextLost, gpuFailed, reinitCalls, reinitFailures,
                   drawCalls, lossSnapshots, tierChanges, samples, mouseEasing,
                   lastInit, unmounted, textureState, textureDeps, loads, textures,
                   chainsStarted, texturesCreated, deletesWhileLost, gpuDeleted,
                   createsWhileLost>>

(* webglcontextlost on the canvas: handleContextLoss, and the effects of its
   commit.  The cleanup keyed on webglState calls cleanupWebGLResources with
   the state of the render before; its gl.getError() is the first since the
   loss and answers CONTEXT_LOST_WEBGL, so it deletes nothing. *)
TContextLost ==
    /\ UNCHANGED scenarioVars
    /\ ~unmounted
    /\ ~TextureEffectPending
    /\ ~contextLost
    /\ webglState.gl
    /\ contextLost' = TRUE
    /\ frameScheduled' = cancelAnimationFrame(frameScheduled)
    /\ webglState' = [webglState EXCEPT !.isInitialized = FALSE,
                                        !.isContextLost = TRUE,
                                        !.contextLossCount = @ + 1,
                                        !.lastContextLossTime = now,
                                        !.hasError = FALSE]
    /\ contextRecoveryState' =
           [contextRecoveryState EXCEPT
               !.isRecovering = TRUE,
               !.preservedState =
                   preserveStateForRecovery(mouseState, performanceState, Null,
                                            dimensions)]
    /\ lossSnapshots' = Append(lossSnapshots,
                               [mouseState |-> mouseState, dimensions |-> dimensions,
                                performanceState |-> performanceState])
    /\ UNCHANGED <<now, containerRect, deviceCapabilities, fallbackState, mouseState,
                   dimensions, performanceState, timers, effectDeps, listeners,
                   windowListener, gpuFailed, reinitCalls, reinitFailures, drawCalls,
                   tierChanges, samples, mouseEasing, lastInit, unmounted>>
    /\ UNCHANGED textureVars

(* The component is unmounted: the cleanup of the texture cleanup effect
   calls cleanupTexture on the current texture whenever webglState.gl and the
   texture are set; cleanupWebGLResources deletes the same texture once more
   when the context is not lost.  Loads in flight are left alone. *)
TUnmount ==
    /\ UNCHANGED scenarioVars
    /\ ~unmounted
    /\ ~TextureEffectPending
    /\ unmounted' = TRUE
    /\ frameScheduled' = cancelAnimationFrame(frameScheduled)
    /\ listeners' = Null
    /\ windowListener' = Null
    /\ effectDeps' = Null
    /\ LET cleanup == TextureCleanup(textureState, NoTexture, textures)
       IN  /\ textures' = cleanup.live
           /\ deletesWhileLost' =
                  deletesWhileLost + (IF contextLost THEN cleanup.deletions ELSE 0)
    /\ gpuDeleted' = gpuDeleted \cup cleanupWebGLResources(webglState, contextLost)
    /\ UNCHANGED <<now, containerRect, webglState, deviceCapabilities,
                   contextRecoveryState, fallbackState, mouseState, dimensions,
                   performanceState, timers, contextLost, gpuFailed, reinitCalls,
                   reinitFailures, drawCalls, lossSnapshots, tierChanges, samples,
                   mouseEasing, lastInit, imageSrc, textureState, textureDeps, loads,
                   chainsStarted, texturesCreated, createsWhileLost>>

(* The instants at which a timer of the texture manager is due. *)
TInstants ==
    {loads[i].due : i \in {j \in 1..Len(loads) : loads[j].phase = "timer"}}
    \cup {loads[i].startedAt + imageTimeout :
              i \in {j \in 1..Len(loads) : loads[j].phase = "image"}}

(* The clock moves on to the next such instant. *)
TTick ==
    /\ UNCHANGED scenarioVars
    /\ TInstants # {}
    /\ \A t \in TInstants : t > now
    /\ now' = CHOOSE t \in TInstants : \A u \in TInstants : t <= u
    /\ UNCHANGED <<containerRect, webglState, deviceCapabilities,
                   contextRecoveryState, fallbackState, mouseState, dimensions,
                   performanceState, frameScheduled, timers, effectDeps, listeners,
                   windowListener, contextLost, gpuFailed, reinitCalls, reinitFailures,
                   drawCalls, lossSnapshots, tierChanges>>
    /\ UNCHANGED auxVars

TNext ==
    \/ TextureEffect
    \/ \E i \in 1..Len(loads), outcome \in ImageOutcomes : ImageSettles(i, outcome)
    \/ \E i \in 1..Len(loads) : RetryFires(i)
    \/ \E src \in TSources \cup {""} : SourceChange(src)
    \/ TContextLost
    \/ TUnmount
    \/ TTick

TextureSpec == TInit /\ [][TNext]_vars

-----------------------------------------------------------------------------
(* The input tracker on its own: a running renderer, the handlers of the
   canvas called in any order with frames between them.  Positions are in
   thousandths of the canvas side, velocities in thousandths per second. *)

(* The updater of handleMouseMove; raw is the position before clamping. *)
handleMouseMove(prev, raw, t) ==
    LET p == [i \in 1..2 |-> Max(0, Min(1000, raw[i]))]
        dt == Max(t - prev.lastMoveTime, 1)
        d == [i \in 1..2 |-> p[i] - prev.target[i]]
        maxMovement == 500
        configured == IF mouseSmoothing # 0 THEN mouseSmoothing ELSE 80
        velocitySmoothing == Max(10, Min(95, configured))
        maxVelocity == 5000 * 1000
        clampedNewVelocity == [i \in 1..2 |->
            Max(-maxVelocity, Min(maxVelocity, (d[i] * 1000) \div dt))]
    IN  IF Abs(d[1]) > maxMovement \/ Abs(d[2]) > maxMovement
        THEN [current |-> p, target |-> p, velocity |-> <<0, 0>>,
              isActive |-> TRUE, lastMoveTime |-> t]
        ELSE [current |-> prev.current, target |-> p,
              velocity |-> [i \in 1..2 |->
                  (prev.velocity[i] * velocitySmoothing
                     + clampedNewVelocity[i] * (100 - velocitySmoothing)) \div 100],
              isActive |-> TRUE, lastMoveTime |-> t]

(* The updater of handleTouchStart (handleMouseEnter is the same). *)
handleTouchStart(prev, p, t) ==
    [current |-> p, target |-> p, velocity |-> <<0, 0>>,
     isActive |-> TRUE, lastMoveTime |-> t]

(* The updater of handleTouchMove. *)
handleTouchMove(prev, p, t) ==
    LET dt == Max(t - prev.lastMoveTime, 1)
        d == [i \in 1..2 |-> p[i] - prev.target[i]]
        velocitySmoothing == IF mouseSmoothing # 0 THEN mouseSmoothing ELSE 80
        newVelocity == [i \in 1..2 |-> (d[i] * 1000) \div dt]
    IN  [current |-> prev.current, target |-> p,
         velocity |-> [i \in 1..2 |->
             (prev.velocity[i] * velocitySmoothing
                + newVelocity[i] * (100 - velocitySmoothing)) \div 100],
         isActive |-> TRUE, lastMoveTime |-> t]

(* The updater of handleMouseLeave, handleTouchEnd, handleKeyUp and
   handleBlur. *)
handleMouseLeave(prev) ==
    [prev EXCEPT !.isActive = FALSE, !.velocity = <<0, 0>>]

(* The updater of handleKeyDown. *)
handleKeyDown(prev, key, t) ==
    LET step == 50
        x == prev.target[1]
        y == prev.target[2]
        target == CASE key = "ArrowLeft"  -> <<Max(0, x - step), y>>
                    [] key = "ArrowRight" -> <<Min(1000, x + step), y>>
                    [] key = "ArrowUp"    -> <<x, Min(1000, y + step)>>
                    [] key = "ArrowDown"  -> <<x, Max(0, y - step)>>
                    [] key = " "          -> <<500, 500>>
    IN  [prev EXCEPT !.target = target, !.isActive = TRUE, !.lastMoveTime = t]

(* Positions an event can carry: on the canvas, and beyond its edge (a touch
   stays with the canvas it started on). *)
PPoints == {<<250, 750>>, <<900, 100>>, <<6000, 750>>}

PKeys == {"ArrowLeft", "ArrowUp", " "}

PSmoothings == {10, 80}

PInit ==
    /\ RunningAt("medium")
    /\ HistoryInit
    /\ PropsInit
    /\ lastInit = Null
    /\ unmounted = FALSE
    /\ TextureInit("")
    /\ inputEvents = 0
    /\ lastInput = Null
    /\ uniforms = Null
    /\ fragment = Null
    /\ resizeLog = <<>>
    /\ mouseSmoothing \in PSmoothings
    /\ RenderInit

(* One event handler runs and its state update is committed. *)
PInput(event, updated) ==
    /\ inputEvents < PMaxInputs
    /\ CanvasMounted(contextRecoveryState, fallbackState, webglState)
    /\ inputEvents' = inputEvents + 1
    /\ lastInput' = Some(event)
    /\ mouseState' = updated
    /\ UNCHANGED <<now, containerRect, webglState, deviceCapabilities,
                   contextRecoveryState, fallbackState, dimensions, performanceState,
                   frameScheduled, timers, windowListener, contextLost, gpuFailed,
                   reinitCalls, reinitFailures, drawCalls, lossSnapshots, tierChanges>>
    /\ UNCHANGED <<samples, mouseEasing, lastInit, unmounted, textureVars,
                   mouseSmoothing, uniforms, fragment, resizeLog, renderVars>>
    /\ effectDeps' = Some(CurrentDeps')
    /\ listeners' = Some(ListenerClosure')

PNext ==
    \/ \E raw \in PPoints :
          PInput([type |-> "mousemove", at |-> raw],
                 handleMouseMove(mouseState, raw, now))
    \/ \E p \in PPoints :
          PInput([type |-> "touchstart", at |-> p],
                 handleTouchStart(mouseState, p, now))
    \/ \E p \in PPoints :
          PInput([type |-> "touchmove", at |-> p],
                 handleTouchMove(mouseState, p, now))
    \/ PInput([type |-> "mouseleave", at |-> <<0, 0>>], handleMouseLeave(mouseState))
    \/ \E key \in PKeys :
          PInput([type |-> key, at |-> <<0, 0>>], handleKeyDown(mouseState, key, now))
    \/ \E dt \in EFrameDeltas : EFrame(dt)

PointerSpec == PInit /\ [][PNext]_vars

-----------------------------------------------------------------------------
(* The distortion functions of the fragment shader, evaluated one fragment at
   a time under fixed uniforms.  Texture coordinates, distances and fall-offs
   are in hundredths; an exponent is a fraction <<numerator, denominator>>.
   What is followed is the fall-offs and the operations whose result GLSL
   leaves undefined: a division by zero and normalize() of a zero vector. *)

Unit == 100

(* The largest r in 0..most with r^k <= n. *)
Root(k, n, most) == CHOOSE r \in 0..most : r^k <= n /\ (r = most \/ (r + 1)^k > n)

(* length(v) *)
length(v) == Root(2, v[1] * v[1] + v[2] * v[2], 2 * Unit)

(* smoothstep(edge0, edge1, x) *)
smoothstep(edge0, edge1, x) ==
    LET t == Max(0, Min(Unit, ((x - edge0) * Unit) \div (edge1 - edge0)))
    IN  (t * t * (3 * Unit - 2 * t)) \div (Unit * Unit)

(* pow(x, e) for x in 0..Unit *)
pow(x, e) ==
    LET num == e[1]
        den == e[2]
    IN  Root(den, IF num >= den THEN x^num \div Unit^(num - den)
                                ELSE x^num * Unit^(den - num), Unit)

(* A fall-off taken without the inversion. *)
falloffUninverted(radius, exponent, dist) ==
    pow(smoothstep(0, radius, dist), exponent)

(* pow(1.0 - smoothstep(0.0, radius, dist), exponent): the interaction and
   the intensity fall-off of every algorithm. *)
falloff(radius, exponent, dist) ==
    pow(Unit - smoothstep(0, radius, dist), exponent)

fluidDistortion(uv, mouse, u) ==
    LET dist == length(<<uv[1] - mouse[1], uv[2] - mouse[2]>>)
    IN  [returnsUv |-> FALSE,
         falloffs |-> <<falloff(u.interactionRadius, u.interactionFalloff, dist),
                        falloff(u.radius, u.falloff, dist)>>,
         normalized |-> {<<uv[1] - mouse[1], uv[2] - mouse[2]>>},
         divisors |-> {u.interactionRadius, u.radius}]

magneticDistortion(uv, mouse, u) ==
    LET dist == Max(length(<<uv[1] - mouse[1], uv[2] - mouse[2]>>) * 10, 1)
    IN  [returnsUv |-> FALSE,
         falloffs |-> <<falloff(u.interactionRadius, u.interactionFalloff, dist \div 10)>>,
         normalized |-> {<<uv[1] - mouse[1], uv[2] - mouse[2]>>},
         divisors |-> {u.radius, u.interactionRadius, dist * dist + 10000}]

rippleDistortion(uv, mouse, u) ==
    LET dist == length(<<uv[1] - mouse[1], uv[2] - mouse[2]>>)
    IN  [returnsUv |-> FALSE,
         falloffs |-> <<falloff(u.interactionRadius, u.interactionFalloff, dist),
                        falloff(u.radius, u.falloff, dist)>>,
         normalized |-> {<<uv[1] - mouse[1], uv[2] - mouse[2]>>},
         divisors |-> {u.interactionRadius, u.radius}]

vortexDistortion(uv, mouse, u) ==
    LET toCenter == <<uv[1] - mouse[1], uv[2] - mouse[2]>>
        dist == length(toCenter)
    IN  IF dist * 10 < 1
        THEN [returnsUv |-> TRUE, falloffs |-> <<>>, normalized |-> {},
              divisors |-> {}]
        ELSE [returnsUv |-> FALSE,
              falloffs |-> <<falloff(u.interactionRadius, u.interactionFalloff, dist),
                             falloff(u.radius, u.falloff, dist)>>,
              normalized |-> {toCenter},
              divisors |-> {u.interactionRadius, u.radius, dist + 10}]

(* main(): the distorted texture coordinate of one fragment. *)
main(uv, u) ==
    LET effectiveMousePos == IF u.mouseActive THEN u.mouse ELSE <<50, 50>>
        identity == [returnsUv |-> TRUE, falloffs |-> <<>>, normalized |-> {},
                     divisors |-> {}]
    IN  IF u.mouseActive \/ u.autoAnimation
        THEN CASE u.distortionType = 0 -> fluidDistortion(uv, effectiveMousePos, u)
               [] u.distortionType = 1 -> magneticDistortion(uv, effectiveMousePos, u)
               [] u.distortionType = 2 -> rippleDistortion(uv, effectiveMousePos, u)
               [] u.distortionType = 3 -> vortexDistortion(uv, effectiveMousePos, u)
        ELSE identity

(* What normalize() of a zero vector yields is left to the GPU. *)
ZeroNormalizeOutcomes == {"nan", "zero"}

SExponents == {<<1, 2>>, <<1, 1>>, <<3, 2>>, <<2, 1>>}

SUniforms ==
    [distortionType : 0..3, mouse : {<<50, 50>>, <<20, 75>>},
     mouseActive : BOOLEAN, autoAnimation : BOOLEAN,
     radius : {30, 100}, falloff : SExponents,
     interactionRadius : {50}, interactionFalloff : {<<1, 1>>}]

SCoords == {<<x, y>> : x \in {0, 10, 20, 30, 40, 50, 60, 70, 80, 90, 100}, y \in {50, 75}}

SInit ==
    /\ RunningAt("medium")
    /\ HistoryInit
    /\ PropsInit
    /\ lastInit = Null
    /\ unmounted = FALSE
    /\ TextureInit("")
    /\ inputEvents = 0
    /\ mouseSmoothing = 80
    /\ lastInput = Null
    /\ uniforms \in {Some(u) : u \in SUniforms}
    /\ fragment = Null
    /\ resizeLog = <<>>
    /\ RenderInit

(* The GPU runs main() for the fragment at uv. *)
Shade(uv, zeroNormalize) ==
    /\ LET u == ValueOf(uniforms)
           out == main(uv, u)
           effectiveMousePos == IF u.mouseActive THEN u.mouse ELSE <<50, 50>>
       IN  fragment' = Some(
               [uv |-> uv,
                atPointer |-> uv = effectiveMousePos,
                dist |-> length(<<uv[1] - effectiveMousePos[1],
                                  uv[2] - effectiveMousePos[2]>>),
                returnsUv |-> out.returnsUv,
                falloffs |-> out.falloffs,
                normalizesZero |-> <<0, 0>> \in out.normalized,
                dividesByZero |-> 0 \in out.divisors,
                finite |-> /\ 0 \notin out.divisors
                           /\ (<<0, 0>> \in out.normalized => zeroNormalize = "zero")])
    /\ fragment' # fragment
    /\ UNCHANGED <<now, containerRect, webglState, deviceCapabilities,
                   contextRecoveryState, fallbackState, mouseState, dimensions,
                   performanceState, frameScheduled, timers, effectDeps, listeners,
                   windowListener, contextLost, gpuFailed, reinitCalls,
                   reinitFailures, drawCalls, lossSnapshots, tierChanges>>
    /\ UNCHANGED <<samples, mouseEasing, lastInit, unmounted, textureVars,
                   inputEvents, mouseSmoothing, lastInput, uniforms, resizeLog,
                   renderVars>>

SNext == \E uv \in SCoords, zeroNormalize \in ZeroNormalizeOutcomes : Shade(uv, zeroNormalize)

ShaderSpec == SInit /\ [][SNext]_vars

-----------------------------------------------------------------------------
(* Window resizes on their own: a running renderer whose container changes
   size while the clock advances; the effects of each commit re-attach the
   window listener. *)

RSizes == ContainerSizes \cup {[width |-> 200, height |-> 200]}

(* A resize event reaches the listener of the window resize effect, which
   calls handleResize; updated records whether that call set the canvas size
   and the dimensions. *)
RWindowResize(rect) ==
    /\ Len(resizeLog) < RMaxResizes
    /\ ~EffectsPending
    /\ windowListener # Null
    /\ containerRect' = rect
    /\ dimensions' = handleResize(CanvasMounted(contextRecoveryState, fallbackState,
                                                webglState),
                                  ValueOf(windowListener).deviceCapabilities,
                                  ValueOf(windowListener).dimensions, rect, dimensions)
    /\ resizeLog' = Append(resizeLog, [time |-> now, rect |-> rect,
                                       updated |-> dimensions' # dimensions])
    /\ UNCHANGED <<now, webglState, deviceCapabilities, contextRecoveryState,
                   fallbackState, mouseState, performanceState, frameScheduled,
                   timers, effectDeps, listeners, windowListener, contextLost,
                   gpuFailed, reinitCalls, reinitFailures, drawCalls, lossSnapshots,
                   tierChanges>>
    /\ UNCHANGED <<samples, mouseEasing, lastInit, unmounted, textureVars,
                   inputEvents, mouseSmoothing, lastInput, uniforms, fragment,
                   renderVars>>

RNext ==
    \/ \E rect \in RSizes : RWindowResize(rect)
    \/ RunEffects
    \/ Tick

ResizeSpec == QInit /\ [][RNext]_vars

-----------------------------------------------------------------------------
(* The canvas backing resolution under the adaptive quality controller: a
   running renderer in a container that keeps its size, on a device drawn
   from CDevices, with frames arriving FrameDeltas apart. *)

(* getOptimalCanvasResolution, with the pixel ratios in hundredths: the
   target size is the container size times the capped ratio, scaled down to
   fit maxViewportDims, then floored. *)
getOptimalCanvasResolution(containerWidth, containerHeight, qualityPreset, caps) ==
    LET cappedDPR == Min(caps.devicePixelRatio, qualityPreset.maxDPR)
        lowEndDPR == IF caps.isLowEndDevice THEN Min(cappedDPR, 125) ELSE cappedDPR
        targetWidth == containerWidth * lowEndDPR
        targetHeight == containerHeight * lowEndDPR
        maxViewportWidth == caps.maxViewportDims[1] * 100
        maxViewportHeight == caps.maxViewportDims[2] * 100
    IN  IF targetWidth > maxViewportWidth \/ targetHeight > maxViewportHeight
        THEN IF caps.maxViewportDims[1] * targetHeight
                    <= caps.maxViewportDims[2] * targetWidth
             THEN [width  |-> maxViewportWidth \div 100,
                   height |-> (targetHeight * caps.maxViewportDims[1]) \div targetWidth]
             ELSE [width  |-> (targetWidth * caps.maxViewportDims[2]) \div targetHeight,
                   height |-> maxViewportHeight \div 100]
        ELSE [width |-> targetWidth \div 100, height |-> targetHeight \div 100]

(* handleResize as called from a render whose closure holds closureCaps,
   closureDims and the tier closureQuality: the canvas size it leaves. *)
handleResizeCanvas(canvas, closureCaps, closureDims, closureQuality, rect, caps, current) ==
    IF ~canvas \/ ~closureCaps THEN current
    ELSE IF rect.width <= 0 \/ rect.height <= 0 THEN current
    ELSE IF /\ Abs(closureDims.width - rect.width) < 1
            /\ Abs(closureDims.height - rect.height) < 1 THEN current
    ELSE getOptimalCanvasResolution(rect.width, rect.height,
                                    qualityPresets[closureQuality], caps)

CDevices ==
    [devicePixelRatio : {100, 200}, isLowEndDevice : BOOLEAN,
     maxViewportDims : {<<4096, 4096>>, <<500, 500>>}]

(* The renderer after its mount: the handleResize of the init effect ran
   with the initial dimensions 0 x 0 and set the canvas for the first tier. *)
CInit ==
    /\ Running
    /\ HistoryInit
    /\ PropsInit
    /\ lastInit = Null
    /\ unmounted = FALSE
    /\ TextureInit("")
    /\ inputEvents = 0
    /\ mouseSmoothing = 80
    /\ lastInput = Null
    /\ uniforms = Null
    /\ fragment = Null
    /\ resizeLog = <<>>
    /\ device \in CDevices
    /\ props = [f \in DOMAIN defaultProps |-> Null]
    /\ autoAnimation = FALSE
    /\ prefersReducedMotion = FALSE
    /\ canvasSize = handleResizeCanvas(TRUE, TRUE, [width |-> 0, height |-> 0],
                                       performanceState.adaptiveQuality,
                                       containerRect, device, canvasSize)

(* A frame, and the effects of the render it causes: when the tier changed,
   handleResize is a new callback, so the init effect and the adaptive
   quality effect call it with the dimensions of that render. *)
CFrame(dt) ==
    /\ animateFrame(dt)
    /\ canvasSize' =
           IF performanceState'.adaptiveQuality # performanceState.adaptiveQuality
           THEN handleResizeCanvas(CanvasMounted(contextRecoveryState, fallbackState,
                                                 webglState),
                                   deviceCapabilities, dimensions,
                                   performanceState'.adaptiveQuality, containerRect,
                                   device, canvasSize)
           ELSE canvasSize
    /\ UNCHANGED <<samples, mouseEasing, lastInit, unmounted, textureVars,
                   inputEvents, mouseSmoothing, lastInput, uniforms, fragment,
                   resizeLog, device, props, autoAnimation,
                   prefersReducedMotion>>

CNext == \E dt \in FrameDeltas : CFrame(dt)

CanvasSpec == CInit /\ [][CNext]_vars

-----------------------------------------------------------------------------
(* The uniform upload of animate: a running renderer whose parent sets up to
   UMaxConfigured numeric properties, each within the range of its property
   control, and whose frames upload them.  Values are in hundredths. *)

(* The min and max of the property controls. *)
propertyControls ==
    [imageOpacity       |-> [min |-> 0,    max |-> 100],
     intensity          |-> [min |-> 0,    max |-> 100],
     radius             |-> [min |-> 0,    max |-> 100],
     falloff            |-> [min |-> 10,   max |-> 500],
     magneticStrength   |-> [min |-> 0,    max |-> 300],
     magneticPolarity   |-> [min |-> -100, max |-> 100],
     rippleFrequency    |-> [min |-> 100,  max |-> 5000],
     rippleAmplitude    |-> [min |-> 0,    max |-> 200],
     rippleDecay        |-> [min |-> 10,   max |-> 1000],
     vortexStrength     |-> [min |-> 0,    max |-> 500],
     vortexTightness    |-> [min |-> 0,    max |-> 300],
     gridSize           |-> [min |-> 500,  max |-> 10000],
     gridOpacity        |-> [min |-> 0,    max |-> 100],
     gridThickness      |-> [min |-> 10,   max |-> 500],
     animationSpeed     |-> [min |-> 10,   max |-> 300],
     interactionRadius  |-> [min |-> 10,   max |-> 100],
     interactionFalloff |-> [min |-> 10,   max |-> 300]]

(* The values tried for a property: the ends of its control's range, and 0
   where the range spans it. *)
UpValues(f) ==
    {propertyControls[f].min, propertyControls[f].max}
    \cup (IF propertyControls[f].min < 0 THEN {0} ELSE {})

(* { ...defaultProps, ...props }: the value of each property in the render. *)
mergeProps(given) ==
    [f \in DOMAIN defaultProps |->
        IF given[f] = Null THEN defaultProps[f] ELSE ValueOf(given[f])]

(* The right-hand sides of the `value || literal` uploads of animate. *)
uploadFallbacks ==
    [imageOpacity |-> 100, intensity |-> 50, radius |-> 30, falloff |-> 80,
     magneticStrength |-> 100, magneticPolarity |-> 100, rippleFrequency |-> 1000,
     rippleAmplitude |-> 50, rippleDecay |-> 200, vortexStrength |-> 200,
     vortexTightness |-> 100, gridSize |-> 2000, gridOpacity |-> 30,
     gridThickness |-> 100, animationSpeed |-> 100, interactionRadius |-> 30,
     interactionFalloff |-> 80]

(* gl.uniform1f(location, value || literal) for every numeric property: a
   value of 0 is falsy. *)
uploadUniforms(merged) ==
    [f \in DOMAIN merged |-> IF merged[f] = 0 THEN uploadFallbacks[f] ELSE merged[f]]

UpInit ==
    /\ RunningAt("medium")
    /\ AuxInit

(* The parent renders the component with the property f set to v. *)
Configure(f, v) ==
    /\ Cardinality({g \in DOMAIN props : props[g] # Null}) < UMaxConfigured
    /\ props[f] = Null
    /\ props' = [props EXCEPT ![f] = Some(v)]
    /\ UNCHANGED <<now, containerRect, webglState, deviceCapabilities,
                   contextRecoveryState, fallbackState, mouseState, dimensions,
                   performanceState, frameScheduled, timers, effectDeps, listeners,
                   windowListener, contextLost, gpuFailed, reinitCalls,
                   reinitFailures, drawCalls, lossSnapshots, tierChanges>>
    /\ UNCHANGED <<samples, mouseEasing, lastInit, unmounted, textureVars,
                   inputEvents, mouseSmoothing, lastInput, uniforms, fragment,
                   resizeLog, device, canvasSize, autoAnimation,
                   prefersReducedMotion>>

(* A frame: animate uploads the numeric properties of its render. *)
UpFrame ==
    /\ frameScheduled
    /\ webglState.isInitialized
    /\ uniforms' = Some([given |-> props, values |-> uploadUniforms(mergeProps(props))])
    /\ uniforms' # uniforms
    /\ UNCHANGED <<now, containerRect, webglState, deviceCapabilities,
                   contextRecoveryState, fallbackState, mouseState, dimensions,
                   performanceState, frameScheduled, timers, effectDeps, listeners,
                   windowListener, contextLost, gpuFailed, reinitCalls,
                   reinitFailures, drawCalls, lossSnapshots, tierChanges>>
    /\ UNCHANGED <<samples, mouseEasing, lastInit, unmounted, textureVars,
                   inputEvents, mouseSmoothing, lastInput, fragment, resizeLog,
                   renderVars>>

UpNext ==
    \/ \E f \in DOMAIN defaultProps : \E v \in UpValues(f) : Configure(f, v)
    \/ UpFrame

UploadSpec == UpInit /\ [][UpNext]_vars

-----------------------------------------------------------------------------
(* The render loop under the reduced-motion preference: a running renderer
   with or without autoAnimation, frames arriving FrameDeltas apart, and a
   user who switches the preference of the system on and off. *)

(* The second entry guard of animate: it returns before drawing, and before
   requestAnimationFrame, when the preference matches and autoAnimation is
   on. *)
animateSkipsFrame == prefersReducedMotion /\ autoAnimation

LInit ==
    /\ Running
    /\ HistoryInit
    /\ PropsInit
    /\ lastInit = Null
    /\ unmounted = FALSE
    /\ TextureInit("")
    /\ inputEvents = 0
    /\ mouseSmoothing = 80
    /\ lastInput = Null
    /\ uniforms = Null
    /\ fragment = Null
    /\ resizeLog = <<>>
    /\ device = [devicePixelRatio |-> 100, isLowEndDevice |-> FALSE,
                 maxViewportDims |-> <<4096, 4096>>]
    /\ canvasSize = [width |-> 300, height |-> 150]
    /\ props = [f \in DOMAIN defaultProps |-> Null]
    /\ autoAnimation \in BOOLEAN
    /\ prefersReducedMotion = FALSE

(* The requestAnimationFrame callback runs dt after the last frame: animate
   either returns at its entry guard, leaving no frame scheduled, or draws
   and schedules the next one. *)
LFrame(dt) ==
    /\ IF animateSkipsFrame
       THEN /\ frameScheduled
            /\ now + dt <= QMaxTime
            /\ now' = now + dt
            /\ frameScheduled' = FALSE
            /\ UNCHANGED <<containerRect, webglState, deviceCapabilities,
                           contextRecoveryState, fallbackState, mouseState,
                           dimensions, performanceState, timers, effectDeps,
                           listeners, windowListener, contextLost, gpuFailed,
                           reinitCalls, reinitFailures, drawCalls, lossSnapshots,
                           tierChanges>>
       ELSE animateFrame(dt)
    /\ UNCHANGED auxVars

(* The user changes the reduced-motion preference of the system; nothing
   subscribes to it, so no render follows. *)
PreferenceChange(reduce) ==
    /\ prefersReducedMotion # reduce
    /\ prefersReducedMotion' = reduce
    /\ UNCHANGED <<now, containerRect, webglState, deviceCapabilities,
                   contextRecoveryState, fallbackState, mouseState, dimensions,
                   performanceState, frameScheduled, timers, effectDeps, listeners,
                   windowListener, contextLost, gpuFailed, reinitCalls,
                   reinitFailures, drawCalls, lossSnapshots, tierChanges>>
    /\ UNCHANGED <<samples, mouseEasing, lastInit, unmounted, textureVars,
                   inputEvents, mouseSmoothing, lastInput, uniforms, fragment,
                   resizeLog, device, canvasSize, props, autoAnimation>>

LNext ==
    \/ \E dt \in FrameDeltas : LFrame(dt)
    \/ \E reduce \in BOOLEAN : PreferenceChange(reduce)

LoopSpec == LInit /\ [][LNext]_vars

-----------------------------------------------------------------------------
(* Properties *)

QualityRank == [low |-> 1, medium |-> 2, high |-> 3]

Losses == Len(lossSnapshots)

LastLoss == lossSnapshots[Len(lossSnapshots)]

(* C1: after a single context loss, with a GPU that never refuses an
   initialization, the component does not end in fallback mode. *)
C1_HealthyGpuNeverFallsBack ==
    (Losses = 1 /\ ~gpuFailed) => ~fallbackState.isActive

(* C2: recovery makes at most maxRecoveryAttempts reinitialization attempts,
   and once that many have failed the component is in fallback mode with no
   further attempt pending (stated for the runs in which the GPU itself never
   refused an initialization). *)
C2_AttemptsBounded ==
    ~gpuFailed =>
        /\ reinitCalls <= maxRecoveryAttempts
        /\ reinitFailures >= maxRecoveryAttempts =>
              (fallbackState.isActive /\ timers = <<>>)

(* C3: fallback mode is terminal: once fallbackState.isActive is set it stays
   set, and no step taken while it is set initializes the renderer again or
   schedules an animation frame when none was pending. *)
C3_FallbackIsTerminal ==
    [][fallbackState.isActive =>
          /\ fallbackState'.isActive
          /\ webglState'.isInitialized => webglState.isInitialized
          /\ frameScheduled' => frameScheduled]_vars

C3_Witness ==
    /\ fallbackState.isActive
    /\ reinitCalls >= 2
    /\ containerRect.width > 300

(* C4: when the recovery from a single loss has ended and the GPU never
   refused an initialization, the pointer state, the dimensions and the tier
   are those of the moment of the loss, frameCount is 0 and the frame-rate
   history is empty. *)
C4_StateRestored ==
    (Losses = 1 /\ ~gpuFailed /\ ~contextRecoveryState.isRecovering) =>
        /\ mouseState = LastLoss.mouseState
        /\ dimensions = LastLoss.dimensions
        /\ performanceState.adaptiveQuality = LastLoss.performanceState.adaptiveQuality
        /\ performanceState.frameCount = 0
        /\ performanceState.frameRateHistory = <<>>

(* C5: the step that takes the context-loss event leaves no animation frame
   pending and marks the context lost, and no draw call is issued from a state
   in which the context is marked lost. *)
C5_LossStopsDrawing ==
    [][/\ (~contextLost /\ contextLost') =>
             (~frameScheduled' /\ webglState'.isContextLost)
       /\ drawCalls' > drawCalls => ~webglState.isContextLost]_vars

C5_Witness ==
    /\ webglState.isContextLost
    /\ ~frameScheduled
    /\ drawCalls >= 2
    /\ Losses >= 1

(* C6: a recovery attempt calls initializeWebGL only when, at that moment,
   fewer than 3 attempts have been made, the last loss is more than 500 ms
   old and fewer than 10 losses have been counted (stated for the runs in
   which the GPU itself never refused an initialization). *)
C6_ReinitOnlyWhenGateHolds ==
    [][(reinitCalls' > reinitCalls /\ ~gpuFailed') =>
          /\ contextRecoveryState.recoveryAttempts < maxRecoveryAttempts
          /\ now - webglState.lastContextLossTime > minTimeBetweenAttempts
          /\ webglState.contextLossCount < maxContextLossCount]_vars

(* C7: at most one recovery attempt is pending at any time, and the component
   is demoted with context_loss_permanent only once the attempt ceiling or the
   loss ceiling has been reached (stated for the runs in which the GPU itself
   never refused an initialization). *)
C7_OneAttemptAndCeilings ==
    ~gpuFailed =>
        /\ Len(timers) <= 1
        /\ (fallbackState.isActive /\ fallbackState.reason = "context_loss_permanent") =>
              \/ contextRecoveryState.recoveryAttempts >= maxRecoveryAttempts
              \/ webglState.contextLossCount >= maxContextLossCount

(* C8: when the GPU never refused an initialization and a recovery attempt
   has failed, an active fallback carries the reason context_loss_permanent. *)
C8_RecoveryFallbackReason ==
    (Losses >= 1 /\ ~gpuFailed /\ reinitFailures >= 1 /\ fallbackState.isActive) =>
        fallbackState.reason = "context_loss_permanent"

(* C9: every tier change moves exactly one step on low < medium < high. *)
C9_OneStepPerChange ==
    \A i \in 2..Len(tierChanges) :
        Abs(QualityRank[tierChanges[i].to] - QualityRank[tierChanges[i].from]) = 1

(* C10: a tier change comes at least minChangeInterval after the previous
   one, and the first at least minChangeInterval after mount. *)
C10_ChangesSpaced ==
    \A i \in 2..Len(tierChanges) :
        tierChanges[i].time - tierChanges[i - 1].time >= minChangeInterval

C10_Witness == Len(tierChanges) >= 3

StepDown == [low |-> "low", medium |-> "low", high |-> "medium"]

StepUp == [low |-> "medium", medium |-> "high", high |-> "high"]

(* C11: on a frame that comes at least minChangeInterval after the last tier
   change, the tier goes one step down when the rolling average is below 80%
   of the active tier's target frame rate and the tier is not low, one step up
   when the average is above 110% of that target and the tier is not high,
   and stays as it is otherwise. *)
C11_TierFollowsBands ==
    [][(drawCalls' > drawCalls
        /\ now' - performanceState.lastQualityChange >= minChangeInterval) =>
          LET q == performanceState.adaptiveQuality
              avg == calculateAverageFrameRate(performanceState'.frameRateHistory)
              target == qualityPresets[q].targetFrameRate
          IN  performanceState'.adaptiveQuality =
                  IF AvgBelow(avg, target, 80) /\ q # "low" THEN StepDown[q]
                  ELSE IF AvgAbove(avg, target, 110) /\ q # "high" THEN StepUp[q]
                  ELSE q]_vars

(* C12: after any number of frames the frame-rate history holds at most 60
   samples and is the most recent min(n, 60) samples in arrival order: a push
   on a full window evicts exactly the oldest sample. *)
C12_HistoryIsRecentWindow ==
    LET history == performanceState.frameRateHistory
        n == Len(samples)
        m == Min(n, 60)
    IN  /\ Len(history) = m
        /\ \A i \in 1..m : history[i] = samples[n - m + i]

C12_Witness ==
    /\ Len(samples) = 62
    /\ Len(performanceState.frameRateHistory) = 60
    /\ performanceState.frameRateHistory[1] = samples[3]
    /\ samples[1] # samples[3]

(* C20: a frame taken while current equals target leaves current as it is,
   whatever the configured easing factor and however long the pointer has
   been still. *)
C20_RestingPointerStays ==
    [][(drawCalls' > drawCalls /\ mouseState.current = mouseState.target) =>
          mouseState'.current = mouseState.current]_vars

C20_Witness ==
    /\ drawCalls >= 2
    /\ mouseState.current = mouseState.target
    /\ mouseState.target = <<400, 600>>
    /\ mouseState.lastMoveTime = 0
    /\ now > 1600
    /\ mouseEasing = 10

InitCall == ValueOf(lastInit)

(* C15: with a canvas and a GPU whose only failing step is the shader setup,
   a primary shader program that fails is replaced by the fallback program and
   initialization ends Running (isInitialized, fallback mode not active);
   initialization fails, ending in fallback mode, only when the fallback
   program fails as well. *)
C15_FallbackShaderKeepsRunning ==
    (lastInit # Null /\ InitCall.canvas) =>
        /\ InitCall.gpu = "primary_shader_fails" =>
              /\ InitCall.result = "ok"
              /\ webglState.isInitialized
              /\ ~fallbackState.isActive
        /\ InitCall.gpu = "both_shaders_fail" =>
              /\ InitCall.result # "ok"
              /\ fallbackState.isActive

C15_Witness ==
    /\ lastInit # Null
    /\ InitCall.canvas
    /\ InitCall.gpu = "primary_shader_fails"
    /\ ~InitCall.wasInitialized
    /\ webglState.isInitialized
    /\ deviceCapabilities
    /\ ~fallbackState.isActive

(* C16: initializeWebGL never throws.  With a canvas and no GPU support it
   returns false with fallback mode active for webgl_unavailable; with no
   canvas, or with both shader programs or the buffer creation failing, it
   returns false with fallback mode active for initialization_failed; a call
   that returns false does not turn isInitialized to true. *)
C16_InitFailsIntoFallback ==
    lastInit # Null =>
        /\ InitCall.result \in {"ok", "webgl_unavailable", "initialization_failed"}
        /\ (InitCall.canvas /\ InitCall.gpu \in {"no_support", "no_context"}) =>
              /\ InitCall.result = "webgl_unavailable"
              /\ fallbackState = [isActive |-> TRUE, reason |-> "webgl_unavailable"]
        /\ (~InitCall.canvas
             \/ InitCall.gpu \in {"both_shaders_fail", "buffer_fails", "throws"}) =>
              /\ InitCall.result = "initialization_failed"
              /\ fallbackState = [isActive |-> TRUE, reason |-> "initialization_failed"]
        /\ InitCall.result # "ok" =>
              webglState.isInitialized = InitCall.wasInitialized

C16_Witness ==
    /\ lastInit # Null
    /\ InitCall.canvas
    /\ InitCall.gpu = "buffer_fails"
    /\ InitCall.wasInitialized
    /\ fallbackState.isActive
    /\ fallbackState.reason = "initialization_failed"

(* C17: the unmount cancels the pending animation frame and every pending
   recovery timer, so that after it no deferred continuation starts a
   reinitialization. *)
C17_UnmountCancelsDeferredWork ==
    [][unmounted' =>
          /\ ~frameScheduled'
          /\ timers' = <<>>
          /\ reinitCalls' = reinitCalls]_vars

CurrentTextures ==
    IF unmounted \/ textureState.texture = Null THEN {}
    ELSE {ValueOf(textureState.texture)}

(* C13: while the context is initialized and not lost and no image has
   loaded, the step in which a load gives up (its retries exhausted, or its
   failure not retried) leaves a placeholder texture as the current texture
   with hasError false and isLoading false; and as long as the context is
   initialized and not lost, a frame stays scheduled. *)
C13_PlaceholderAfterExhaustion ==
    [][/\ (/\ Len(loads') < Len(loads)
           /\ ~textureState.isLoaded /\ ~textureState'.isLoaded
           /\ webglState.isInitialized /\ ~contextLost /\ ~unmounted) =>
             /\ textureState'.texture # Null
             /\ ValueOf(textureState'.texture).kind = "placeholder"
             /\ ValueOf(textureState'.texture) \in textures'
             /\ ~textureState'.hasError
             /\ ~textureState'.isLoading
       /\ (webglState'.isInitialized /\ ~contextLost' /\ ~unmounted') =>
             frameScheduled']_vars

C13_Witness ==
    /\ now = 47000
    /\ loads = <<>>
    /\ chainsStarted = 1
    /\ textureState.texture = Some([id |-> 1, kind |-> "placeholder"])
    /\ textures = {[id |-> 1, kind |-> "placeholder"]}
    /\ ~textureState.hasError
    /\ ~textureState.isLoading
    /\ frameScheduled
    /\ ~contextLost
    /\ ~unmounted

(* C14: a load arms a retry only after a load error or a timeout and only
   while fewer than 3 retries have been made; the 1st, 2nd and 3rd retry start
   no sooner than 1000, 2000 and 4000 ms after the failure they follow; and
   when no load is in flight any more, isLoading is false. *)
C14_RetriesBoundedAndSpaced ==
    [][/\ \A i \in 1..Len(loads') : loads'[i].retryCount <= 3
       /\ Len(loads') = Len(loads) =>
             \A i \in 1..Len(loads) :
                /\ (loads[i].phase = "image" /\ loads'[i].phase = "timer") =>
                      /\ loads[i].retryCount < 3
                      /\ loads'[i].errorMessage
                             \in {"Failed to load image", "Image loading timeout"}
                /\ (loads[i].phase = "timer" /\ loads'[i].phase = "image") =>
                      /\ loads'[i].retryCount = loads[i].retryCount + 1
                      /\ now >= loads[i].due
                      /\ loads[i].due - loads[i].failedAt =
                             <<1000, 2000, 4000>>[loads'[i].retryCount]
       /\ (loads' = <<>> /\ ~unmounted' /\ ~TextureEffectPending') =>
             ~textureState'.isLoading]_vars

C14_Witness ==
    \E i \in 1..Len(loads) :
        /\ loads[i].phase = "image"
        /\ loads[i].retryCount = 3
        /\ loads[i].startedAt = 27000
        /\ textureState.isLoading

(* C18: no GPU deletion call is issued while the context is lost. *)
C18_NoDeletionWhileContextLost == deletesWhileLost = 0

(* C19: no texture created by the texture manager is left undeleted other
   than the current texture of the mounted component. *)
C19_OnlyCurrentTextureAlive == textures \subseteq CurrentTextures

MaxVelocity == 5000 * 1000

(* C21: a pointer move or a touch move to a position more than 0.5 away from
   the previous target on either axis leaves current and target at the new
   position and the velocity at exactly (0, 0). *)
C21_JumpResetsPointer ==
    [][(/\ inputEvents' > inputEvents
        /\ ValueOf(lastInput').type \in {"mousemove", "touchmove"}
        /\ \E i \in 1..2 : Abs(mouseState'.target[i] - mouseState.target[i]) > 500)
       => (/\ mouseState'.current = mouseState'.target
           /\ mouseState'.velocity = <<0, 0>>)]_vars

(* C22: after any sequence of mouse, touch and key events and frames, each
   component of the velocity is at most 5000 per second in magnitude. *)
C22_VelocityClamped ==
    \A i \in 1..2 : Abs(mouseState.velocity[i]) <= MaxVelocity

(* C23: a fragment whose texture coordinate equals the effective pointer
   position is shaded, under each of the four algorithms, without a division
   by zero and without normalizing a zero-length vector, and its displaced
   coordinate is finite. *)
C23_FiniteAtPointer ==
    (fragment # Null /\ ValueOf(fragment).atPointer) =>
        /\ ~ValueOf(fragment).dividesByZero
        /\ ~ValueOf(fragment).normalizesZero
        /\ ValueOf(fragment).finite

(* C24: under fixed uniforms with radius > 0 and exponent > 0, of two
   fragments the one farther from the pointer has the interaction fall-off
   and the intensity fall-off no larger than the nearer one. *)
C24_FalloffNonIncreasing ==
    [][(/\ fragment # Null
        /\ fragment' # Null
        /\ Len(ValueOf(fragment).falloffs) = Len(ValueOf(fragment').falloffs)
        /\ ValueOf(fragment).dist < ValueOf(fragment').dist)
       => \A k \in 1..Len(ValueOf(fragment).falloffs) :
              ValueOf(fragment).falloffs[k] >= ValueOf(fragment').falloffs[k]]_vars

C24_Witness ==
    /\ fragment # Null
    /\ ValueOf(uniforms).distortionType = 0
    /\ ValueOf(uniforms).radius = 30
    /\ ValueOf(fragment).dist = 20
    /\ Len(ValueOf(fragment).falloffs) = 2
    /\ ValueOf(fragment).falloffs[2] > 0
    /\ ValueOf(fragment).falloffs[2] < ValueOf(fragment).falloffs[1]
    /\ ValueOf(fragment).falloffs[1] < Unit

(* C25: resize events less than 100 ms apart are coalesced: of the events of
   one burst at most one leads to an update of the canvas size and the
   dimensions. *)
C25_ResizeBurstCoalesced ==
    \A k, l \in 1..Len(resizeLog) :
        (k < l /\ resizeLog[k].updated /\ resizeLog[l].updated) =>
            \E j \in k..(l - 1) : resizeLog[j + 1].time - resizeLog[j].time >= 100

(* C26: when the primary shader program compiles and links and only its
   validation fails, initialization succeeds and the program in use is the
   primary one. *)
C26_ValidationIsAdvisory ==
    (lastInit # Null /\ InitCall.canvas /\ InitCall.gpu = "primary_validation_fails") =>
        /\ InitCall.result = "ok"
        /\ InitCall.program = "primary"

(* C27: the backoff timer armed for a recovery attempt, n attempts having
   been made since the loss, waits between min(1000 * 2^n, 10000) and
   min(1300 * 2^n, 10000) milliseconds. *)
C27_BackoffGrowsWithAttempts ==
    [][\A i \in 1..Len(timers') :
          (/\ timers'[i].kind = "delay"
           /\ \A j \in 1..Len(timers) : timers[j] # timers'[i]) =>
              LET n == contextRecoveryState.recoveryAttempts
                  d == timers'[i].due - timers'[i].currentTime
              IN  /\ Min(1000 * 2^n, 10000) <= d
                  /\ d <= Min(1300 * 2^n, 10000)]_vars

(* C28: the context-loss count is cumulative: no step lowers it, and the
   count the recovery gate reads when it lets an attempt proceed is the number
   of losses since the mount (so that the ceiling of 10 counts every loss). *)
C28_GateCountsEveryLoss ==
    [][/\ webglState'.contextLossCount >= webglState.contextLossCount
       /\ \A i \in 1..Len(timers') :
             (/\ timers'[i].kind = "delay"
              /\ \A j \in 1..Len(timers) : timers[j] # timers'[i]) =>
                 timers'[i].closure.contextLossCount = Losses]_vars

(* C29: once recovery has ended after a loss, with the renderer initialized
   again or with fallback mode entered for a permanent context loss, the
   recovery state holds no snapshot and isRecovering is false. *)
C29_RecoveryEndsWithoutSnapshot ==
    (/\ Losses > 0
     /\ \/ webglState.isInitialized
        \/ fallbackState.isActive /\ fallbackState.reason = "context_loss_permanent")
    => (/\ ~contextRecoveryState.isRecovering
        /\ contextRecoveryState.preservedState = NoPreservedState)

(* C30: while the component is mounted and the texture load effect has run
   for the current imageSrc, a step of a load that was started for another
   source (its image settling or its retry timer firing) leaves the texture
   state as it is. *)
C30_StaleLoadLeavesTextureState ==
    [][(/\ ~unmounted
        /\ ~TextureEffectPending
        /\ \E i \in 1..Len(loads) :
              /\ loads[i].src # imageSrc
              /\ \/ loads' = RemoveAt(loads, i)
                 \/ Len(loads') = Len(loads) /\ loads'[i] # loads[i])
       => textureState' = textureState]_vars

(* C31: while the component is mounted and Running (initialized, context not
   lost, not in fallback mode), no deletion call has been issued on the
   program or the vertex buffer, and the texture of the texture state, if any,
   is a live GPU texture. *)
C31_RunningResourcesAlive ==
    (/\ ~unmounted
     /\ webglState.isInitialized
     /\ ~webglState.isContextLost
     /\ ~fallbackState.isActive)
    => /\ gpuDeleted = {}
       /\ textureState.texture # Null => ValueOf(textureState.texture) \in textures

(* C32: a step that takes the component from recovering into fallback mode
   comes only once maxRecoveryAttempts attempts have failed or
   maxContextLossCount losses have occurred; in particular a recovery check
   made within minTimeBetweenAttempts of the loss does not demote it. *)
C32_FallbackOnlyAtCeilings ==
    [][(/\ contextRecoveryState.isRecovering
        /\ ~fallbackState.isActive
        /\ fallbackState'.isActive)
       => \/ reinitFailures' >= maxRecoveryAttempts
          \/ Losses >= maxContextLossCount]_vars

(* C33: while the renderer is initialized with a frame scheduled and the
   texture of the texture state is the placeholder substituted after a load
   failure, the frame binds it: animate finds hasTexture true. *)
C33_PlaceholderIsBound ==
    (/\ ~unmounted
     /\ webglState.isInitialized
     /\ frameScheduled
     /\ textureState.texture # Null
     /\ ValueOf(textureState.texture).kind = "placeholder")
    => hasTexture(textureState)

(* C34: in a container that keeps its size, the canvas backing resolution
   is the one getOptimalCanvasResolution gives for the current adaptive
   tier, also after the tier has changed. *)
C34_CanvasFollowsTier ==
    canvasSize = getOptimalCanvasResolution(containerRect.width, containerRect.height,
                     qualityPresets[performanceState.adaptiveQuality], device)

(* C35: the uniforms a frame uploads carry, for every numeric property, the
   value the parent passed, 0 included, and the default of defaultProps where
   it passed none. *)
C35_UniformsCarryConfiguration ==
    uniforms # Null =>
        \A f \in DOMAIN defaultProps :
            ValueOf(uniforms).values[f] =
                IF ValueOf(uniforms).given[f] = Null THEN defaultProps[f]
                ELSE ValueOf(ValueOf(uniforms).given[f])

(* C36: once an input event has been handled, the target and the current
   position both lie in the unit square (0..1000 thousandths on each axis). *)
C36_PointerInUnitSquare ==
    inputEvents >= 1 =>
        \A i \in 1..2 : /\ mouseState.target[i] \in 0..1000
                        /\ mouseState.current[i] \in 0..1000

(* C37: on every frame, for a configured easing factor above 0 and with t
   the age of the last input, current moves by the share e of its distance to
   target, where e is the configured factor when t <= 100, is within rounding
   of factor * (1 - (t - 100) / 2000) when 100 < t < 1900, is a tenth of the
   factor when t >= 1900, is never below a tenth of the factor, never 0 and
   never above the e of a shorter inactivity. *)
C37_EasingFadesToTenth ==
    [][(drawCalls' > drawCalls /\ mouseEasing > 0) =>
          LET t == now' - mouseState.lastMoveTime
              e == currentEasing(mouseEasing, t)
          IN  /\ \A i \in 1..2 :
                     mouseState'.current[i] = mouseState.current[i]
                         + ((mouseState.target[i] - mouseState.current[i]) * e) \div 1000
              /\ t <= 100 => e = mouseEasing
              /\ (100 < t /\ t < 1900) =>
                     Abs(e * 2000 - mouseEasing * (2100 - t)) < 4000
              /\ t >= 1900 => e * 10 = mouseEasing
              /\ e * 10 >= mouseEasing
              /\ e > 0
              /\ \A u \in {0, 16, 100, 101, 500, 1000, 1500, 1900, 2000, 3000} :
                     u <= t => currentEasing(mouseEasing, u) >= e]_vars

C37_Witness ==
    /\ drawCalls >= 2
    /\ mouseEasing = 10
    /\ mouseState.lastMoveTime > 0
    /\ now - mouseState.lastMoveTime >= 3000
    /\ mouseState.current # mouseState.target
    /\ mouseState.current # <<0, 0>>

(* C38: no load ever calls gl.createTexture() while the context is lost. *)
C38_NoCreationWhileContextLost == createsWhileLost = 0

(* C39: while the component is mounted and Running (initialized, context not
   lost, not in fallback mode), a frame is scheduled: no frame callback has
   returned without requesting the next one. *)
C39_RenderLoopAlive ==
    (/\ ~unmounted
     /\ webglState.isInitialized
     /\ ~webglState.isContextLost
     /\ ~fallbackState.isActive)
    => frameScheduled

====
